---- MODULE Spec2Model ----
(***************************************************************************)
(* Security drift detection for CI/CD pipelines: the Express routes        *)
(* (api/driftRoutes.js), the MongoDB analysis store (utils/storage.js),    *)
(* the baseline model file (model/driftModel.js), the log normalizer       *)
(* (parsers/), the feature extractor and the z-score drift detector        *)
(* (detector/driftDetector.js).                                            *)
(*                                                                         *)
(* Numbers are fixed-point integers in thousandths (1.5 is 1500); drift    *)
(* scores are kept in hundredths of a point (100 is 10000).  JS strings    *)
(* that the code searches are sequences of one-character strings.  JS      *)
(* values carry their type in the field k.                                 *)
(***************************************************************************)
EXTENDS Integers, Sequences, FiniteSets, TLC

(***************************************************************************)
(* Bounds of the model                                                     *)
(***************************************************************************)
\* the number of analyses the detector creates (fresh ids)
MaxIds == 2
\* the number of concurrent storeAnalysis calls
MaxCalls == 2
\* the latest hour the clock (new Date()) shows
MaxHour == 1
\* the most analyses a store holds when GET /pipelines is asked
MaxUploads == 3
\* the largest retry budget fetchWithRetry is given
MaxRetries == 3

None == [k |-> "none"]

(***************************************************************************)
(* JS values                                                               *)
(***************************************************************************)
Undefined == [k |-> "undefined"]
Null == [k |-> "null"]
Str(s) == [k |-> "string", s |-> s]
Bool(b) == [k |-> "boolean", b |-> b]
Arr(items) == [k |-> "array", items |-> items]
Fin(v) == [k |-> "fin", v |-> v]
NaN == [k |-> "nan", v |-> 0]
PosInf == [k |-> "inf", v |-> 1]
NegInf == [k |-> "inf", v |-> -1]
\* an RFC 3339 string: local hour and UTC offset in hours
Timestamp(local, offset) == [k |-> "timestamp", local |-> local, offset |-> offset]

IsNumber(x) == x.k \in {"fin", "nan", "inf"}
IsString(x) == x.k \in {"string", "timestamp"}

\* ToBoolean
Truthy(x) ==
  CASE x.k \in {"undefined", "null", "nan"} -> FALSE
    [] x.k = "string" -> x.s # <<>>
    [] x.k = "boolean" -> x.b
    [] x.k = "fin" -> x.v # 0
    [] OTHER -> TRUE

\* a || b
Or(a, b) == IF Truthy(a) THEN a ELSE b

Abs(x) == IF x < 0 THEN -x ELSE x

\* n / d rounded to the nearest integer, d > 0
DivRound(n, d) ==
  IF n >= 0 THEN (2 * n + d) \div (2 * d) ELSE -((2 * (-n) + d) \div (2 * d))

(***************************************************************************)
(* JS strings: toLowerCase, trim, includes, startsWith, endsWith, replace  *)
(***************************************************************************)
UpperCase ==
  { "A", "B", "C", "D", "E", "F", "G", "H", "I", "J", "K", "L", "M",
    "N", "O", "P", "Q", "R", "S", "T", "U", "V", "W", "X", "Y", "Z" }

LowerCase ==
  [ c \in UpperCase |->
      CASE c = "A" -> "a" [] c = "B" -> "b" [] c = "C" -> "c" [] c = "D" -> "d"
        [] c = "E" -> "e" [] c = "F" -> "f" [] c = "G" -> "g" [] c = "H" -> "h"
        [] c = "I" -> "i" [] c = "J" -> "j" [] c = "K" -> "k" [] c = "L" -> "l"
        [] c = "M" -> "m" [] c = "N" -> "n" [] c = "O" -> "o" [] c = "P" -> "p"
        [] c = "Q" -> "q" [] c = "R" -> "r" [] c = "S" -> "s" [] c = "T" -> "t"
        [] c = "U" -> "u" [] c = "V" -> "v" [] c = "W" -> "w" [] c = "X" -> "x"
        [] c = "Y" -> "y" [] c = "Z" -> "z" ]

Lower(c) == IF c \in UpperCase THEN LowerCase[c] ELSE c

ToLowerCase(s) == [i \in DOMAIN s |-> Lower(s[i])]

RECURSIVE TrimStart(_)
TrimStart(s) == IF s # <<>> /\ Head(s) = " " THEN TrimStart(Tail(s)) ELSE s

RECURSIVE TrimEnd(_)
TrimEnd(s) ==
  IF s # <<>> /\ s[Len(s)] = " " THEN TrimEnd(SubSeq(s, 1, Len(s) - 1)) ELSE s

Trim(s) == TrimEnd(TrimStart(s))

\* w occurs in s from position i on
OccursAt(s, w, i) == \A j \in 1..Len(w) : s[i + j - 1] = w[j]

Includes(s, w) == \E i \in 1..(Len(s) - Len(w) + 1) : OccursAt(s, w, i)

StartsWith(s, p) == Len(s) >= Len(p) /\ SubSeq(s, 1, Len(p)) = p

EndsWith(s, p) == Len(s) >= Len(p) /\ SubSeq(s, Len(s) - Len(p) + 1, Len(s)) = p

\* s.replace(w, ''): the first occurrence of w removed
ReplaceFirst(s, w) ==
  IF Includes(s, w)
  THEN LET i == CHOOSE j \in 1..(Len(s) - Len(w) + 1) :
                  /\ OccursAt(s, w, j)
                  /\ \A h \in 1..(j - 1) : ~OccursAt(s, w, h)
       IN SubSeq(s, 1, i - 1) \o SubSeq(s, i + Len(w), Len(s))
  ELSE s

\* some keyword of the list occurs in s
IncludesAny(s, keywords) ==
  LET letters == {s[i] : i \in DOMAIN s}
  IN \E i \in 1..Len(keywords) : keywords[i][1] \in letters /\ Includes(s, keywords[i])

\* the test/sample/mock/dummy check of the routes, on the lower-cased name
IsTestName(name) ==
  \/ Includes(ToLowerCase(name), <<"t", "e", "s", "t">>)
  \/ Includes(ToLowerCase(name), <<"s", "a", "m", "p", "l", "e">>)
  \/ Includes(ToLowerCase(name), <<"m", "o", "c", "k">>)
  \/ Includes(ToLowerCase(name), <<"d", "u", "m", "m", "y">>)

\* Number(s) for a string: decimal digits give their value, anything else NaN
DigitValue(c) ==
  CASE c = "0" -> 0 [] c = "1" -> 1 [] c = "2" -> 2 [] c = "3" -> 3 [] c = "4" -> 4
    [] c = "5" -> 5 [] c = "6" -> 6 [] c = "7" -> 7 [] c = "8" -> 8 [] c = "9" -> 9
    [] OTHER -> -1

RECURSIVE DigitsValue(_)
DigitsValue(s) ==
  IF s = <<>> THEN 0 ELSE 10 * DigitsValue(SubSeq(s, 1, Len(s) - 1)) + DigitValue(s[Len(s)])

\* Number(x)
ToNumber(x) ==
  CASE IsNumber(x) -> x
    [] x.k = "undefined" -> NaN
    [] x.k = "null" -> Fin(0)
    [] x.k = "boolean" -> Fin(IF x.b THEN 1000 ELSE 0)
    [] x.k = "string" ->
         IF Trim(x.s) = <<>> THEN Fin(0)
         ELSE IF \A i \in 1..Len(Trim(x.s)) : DigitValue(Trim(x.s)[i]) >= 0
              THEN Fin(1000 * DigitsValue(Trim(x.s)))
              ELSE NaN
    [] OTHER -> NaN

(***************************************************************************)
(* Timestamps: the string order MongoDB sorts by and the instant meant     *)
(***************************************************************************)
\* the instant of an RFC 3339 string, in hours
Instant(ts) == ts.local - ts.offset

\* a < b on the strings: the local part comes first, then "+hh:00" before "Z"
StringLess(a, b) ==
  \/ a.local < b.local
  \/ (a.local = b.local /\ a.offset > 0 /\ b.offset = 0)
  \/ (a.local = b.local /\ a.offset > 0 /\ b.offset > 0 /\ a.offset < b.offset)

\* new Date(ts).toISOString(): the same instant written in UTC
toISOString(ts) == Timestamp(ts.local - ts.offset, 0)

(***************************************************************************)
(* parsers/universalLogParser.js and parsers/logParser.js                  *)
(***************************************************************************)
SECURITY_KEYWORDS ==
  << <<"s", "e", "c", "u", "r", "i", "t", "y">>, <<"s", "c", "a", "n">>, <<"a", "u", "d", "i", "t">>, <<"t", "e", "s", "t">>, <<"c", "h", "e", "c", "k">>, <<"v", "e", "r", "i", "f", "y">>, <<"v", "a", "l", "i", "d", "a", "t", "e">>,
     <<"d", "e", "p", "e", "n", "d", "e", "n", "c", "y", "-", "c", "h", "e", "c", "k">>, <<"s", "a", "s", "t">>, <<"d", "a", "s", "t">>, <<"s", "e", "c", "r", "e", "t", "s">>, <<"t", "o", "k", "e", "n">>, <<"k", "e", "y">>,
     <<"v", "u", "l", "n", "e", "r", "a", "b", "i", "l", "i", "t", "y">>, <<"c", "o", "m", "p", "l", "i", "a", "n", "c", "e">>, <<"p", "o", "l", "i", "c", "y">> >>

\* STEP_TYPE_KEYWORDS, in the order Object.entries walks them
STEP_TYPE_KEYWORDS ==
  << [type |-> <<"s", "e", "c", "u", "r", "i", "t", "y">>,
      keywords |-> << <<"s", "e", "c", "u", "r", "i", "t", "y">>, <<"s", "c", "a", "n">>, <<"a", "u", "d", "i", "t">>, <<"s", "a", "s", "t">>, <<"d", "a", "s", "t">>,
                      <<"v", "u", "l", "n", "e", "r", "a", "b", "i", "l", "i", "t", "y">>, <<"c", "o", "m", "p", "l", "i", "a", "n", "c", "e">> >>],
     [type |-> <<"b", "u", "i", "l", "d">>, keywords |-> << <<"b", "u", "i", "l", "d">>, <<"c", "o", "m", "p", "i", "l", "e">>, <<"m", "a", "k", "e">>, <<"d", "o", "c", "k", "e", "r">> >>],
     [type |-> <<"t", "e", "s", "t">>, keywords |-> << <<"t", "e", "s", "t">>, <<"u", "n", "i", "t">>, <<"i", "n", "t", "e", "g", "r", "a", "t", "i", "o", "n">>, <<"e", "2", "e">> >>],
     [type |-> <<"d", "e", "p", "l", "o", "y">>, keywords |-> << <<"d", "e", "p", "l", "o", "y">>, <<"r", "e", "l", "e", "a", "s", "e">>, <<"p", "u", "b", "l", "i", "s", "h">>, <<"p", "u", "s", "h">> >>],
     [type |-> <<"a", "p", "p", "r", "o", "v", "a", "l">>, keywords |-> << <<"a", "p", "p", "r", "o", "v", "a", "l">>, <<"m", "a", "n", "u", "a", "l">>, <<"g", "a", "t", "e">>, <<"r", "e", "v", "i", "e", "w">> >>] >>

\* String(x) for the values a step field holds
ToStr(x) ==
  CASE x.k = "string" -> x.s
    [] x.k = "undefined" -> <<"u", "n", "d", "e", "f", "i", "n", "e", "d">>
    [] x.k = "boolean" -> IF x.b THEN <<"t", "r", "u", "e">> ELSE <<"f", "a", "l", "s", "e">>
    [] OTHER -> <<"[", "o", "b", "j", "e", "c", "t", "]">>

\* `${x || ''}` of a template literal
TextOf(x) == IF Truthy(x) THEN ToStr(x) ELSE <<>>

normalizeStepName(name) == ToLowerCase(Trim(name))

isSecurityStep(stepName) ==
  LET normalized == normalizeStepName(stepName)
  IN IncludesAny(normalized, SECURITY_KEYWORDS)

\* the type of the first entry of STEP_TYPE_KEYWORDS, from the i-th on, one of
\* whose keywords the normalized name includes
RECURSIVE StepTypeFrom(_, _)
StepTypeFrom(normalized, i) ==
  IF i > Len(STEP_TYPE_KEYWORDS) THEN <<"o", "t", "h", "e", "r">>
  ELSE IF IncludesAny(normalized, STEP_TYPE_KEYWORDS[i].keywords)
  THEN STEP_TYPE_KEYWORDS[i].type
  ELSE StepTypeFrom(normalized, i + 1)

getStepType(stepName) ==
  LET normalized == normalizeStepName(stepName)
  IN StepTypeFrom(normalized, 1)

\* [...new Set(list)]: the first occurrence of each entry, in order
RECURSIVE Dedupe(_)
Dedupe(list) ==
  IF list = <<>> THEN <<>>
  ELSE LET rest == Dedupe(SubSeq(list, 1, Len(list) - 1))
           x == list[Len(list)]
       IN IF \E i \in 1..Len(rest) : rest[i] = x THEN rest ELSE Append(rest, x)

\* extractPermissions for a step whose permissions are an array, a string or
\* absent (scopes, access and env are not among the step fields drawn here)
extractPermissions(step) ==
  CASE step.permissions.k = "array" ->
         Dedupe([i \in 1..Len(step.permissions.items) |-> step.permissions.items[i]])
    [] step.permissions.k = "string" /\ Truthy(step.permissions) -> << step.permissions.s >>
    [] OTHER -> <<>>

\* usesSecrets: the name/description/id text (env, inputs and scripts are not
\* among the step fields drawn here)
usesSecrets(step) ==
  LET stepText == ToLowerCase(TextOf(step.name) \o <<" ">> \o <<" ">>)
  IN Includes(stepText, <<"s", "e", "c", "r", "e", "t">>) \/ Includes(stepText, <<"t", "o", "k", "e", "n">>) \/ Includes(stepText, <<"k", "e", "y">>)

requiresApproval(step) ==
  LET stepText == ToLowerCase(TextOf(step.name) \o <<" ">> \o <<" ">> \o TextOf(step.type) \o <<" ">>)
  IN \/ Includes(stepText, <<"a", "p", "p", "r", "o", "v", "a", "l">>)
     \/ Includes(stepText, <<"m", "a", "n", "u", "a", "l">>)
     \/ Includes(stepText, <<"g", "a", "t", "e">>)
     \/ Includes(stepText, <<"r", "e", "v", "i", "e", "w">>)
     \/ step.type = Str(<<"a", "p", "p", "r", "o", "v", "a", "l">>)

\* `step-${n}` for the small n of the model
StepLabel(n) ==
  <<"s", "t", "e", "p", "-">> \o << CASE n = 1 -> "1" [] n = 2 -> "2" [] n = 3 -> "3" [] n = 4 -> "4"
                   [] OTHER -> "n" >>

\* the executionOrder before Number(): the first of executionOrder, order,
\* index and run_number that is not undefined, else index + 1 (lines 514-518)
rawExecutionOrder(step, index) ==
  IF step.executionOrder.k # "undefined" THEN step.executionOrder
  ELSE IF step.order.k # "undefined" THEN step.order
  ELSE IF step.index.k # "undefined" THEN step.index
  ELSE IF step.run_number.k # "undefined" THEN step.run_number
  ELSE Fin(1000 * (index + 1))

\* the step normalizeStep returns once the name is settled (lines 497-548)
normalizedStep(step, index, stepName) ==
  [ k |-> "step",
    name |-> stepName,
    type |-> ToStr(Or(step.type, Str(getStepType(stepName)))),
    executionOrder |-> ToNumber(rawExecutionOrder(step, index)),
    permissions |-> extractPermissions(step),
    security |-> Truthy(IF step.security.k # "undefined" THEN step.security
                        ELSE Bool(isSecurityStep(stepName))),
    secrets |-> Truthy(IF step.secrets.k # "undefined" THEN step.secrets
                       ELSE Bool(usesSecrets(step))),
    approval |-> Truthy(IF step.approval.k # "undefined" THEN step.approval
                        ELSE Bool(requiresApproval(step))) ]

\* normalizeStep(step, index, format), index counted from 0; None for null
normalizeStep(step, index) ==
  IF step.k # "object" THEN None
  ELSE normalizedStep(step, index, ToStr(Or(step.name, Str(StepLabel(index + 1)))))

\* x && Array.isArray(x)
IsArray(x) == x.k = "array"

\* detectFormat, in the order of its tests; the logs drawn carry workflow,
\* jobs, stages and steps, and none of workflow_run, before_script,
\* after_script, image, services or a jobs object
detectFormat(json) ==
  IF json.k # "object" THEN "generic"
  ELSE IF Truthy(json.workflow) \/ IsArray(json.jobs) THEN "github-actions"
  ELSE IF Truthy(json.stages) THEN "gitlab-ci"
  ELSE IF IsArray(json.stages) /\ Len(json.stages.items) > 0
          /\ Truthy(json.stages.items[1]) /\ Truthy(json.stages.items[1].steps)
  THEN "jenkins"
  ELSE IF IsArray(json.stages) /\ Len(json.stages.items) > 0
          /\ Truthy(json.stages.items[1])
          /\ (Truthy(json.stages.items[1].jobs) \/ Truthy(json.stages.items[1].phases))
  THEN "azure-devops"
  ELSE IF IsArray(json.steps) THEN "standard"
  ELSE "generic"

\* a candidate extractPipelineName accepts: a string that is not blank
NameCandidate(candidate) ==
  Truthy(candidate) /\ candidate.k = "string" /\ Trim(candidate.s) # <<>>

\* extractPipelineName: the first non-blank string candidate, trimmed, of
\* pipeline, pipelineName, name and workflow (the later candidates are on no
\* log drawn); a workflow that is blank, for github-actions; else a name made
\* from the clock
extractPipelineName(json, format, now) ==
  IF NameCandidate(json.pipeline) THEN Str(Trim(json.pipeline.s))
  ELSE IF NameCandidate(json.pipelineName) THEN Str(Trim(json.pipelineName.s))
  ELSE IF NameCandidate(json.name) THEN Str(Trim(json.name.s))
  ELSE IF NameCandidate(json.workflow) THEN Str(Trim(json.workflow.s))
  ELSE IF format = "github-actions" /\ Truthy(json.workflow) THEN Str(ToStr(json.workflow))
  ELSE IF format = "jenkins" /\ Truthy(json.pipeline) THEN Str(ToStr(json.pipeline))
  ELSE Str(<<"p", "i", "p", "e", "l", "i", "n", "e", "-">> \o StepLabel(now + 1))

\* extractTimestamp: the first candidate new Date() can read, as ISO; else now
extractTimestamp(json, now) ==
  IF Truthy(json.timestamp) /\ json.timestamp.k = "timestamp"
  THEN toISOString(json.timestamp)
  ELSE Timestamp(now, 0)

\* the log itself seen as a step: of the step fields it has the name only
LogAsStep(json) ==
  [ k |-> "object", name |-> json.name, type |-> Undefined, executionOrder |-> Undefined,
    order |-> Undefined, index |-> Undefined, run_number |-> Undefined,
    permissions |-> Undefined, security |-> Undefined, secrets |-> Undefined,
    approval |-> Undefined ]

\* for (const c of containers) if (c.steps && Array.isArray(c.steps))
\* steps.push(...c.steps), over the first n stages, jobs or phases
RECURSIVE StepsOfAll(_, _)
StepsOfAll(containers, n) ==
  IF n = 0 THEN <<>>
  ELSE StepsOfAll(containers, n - 1)
         \o (IF IsArray(containers[n].steps) THEN containers[n].steps.items ELSE <<>>)

\* the steps of an array of jobs or phases, none when it is no array
StepsUnder(list) == IF IsArray(list) THEN StepsOfAll(list.items, Len(list.items)) ELSE <<>>

\* azure-devops: per stage the steps of its jobs, then those of its phases
RECURSIVE AzureSteps(_, _)
AzureSteps(stages, n) ==
  IF n = 0 THEN <<>>
  ELSE AzureSteps(stages, n - 1) \o StepsUnder(stages[n].jobs) \o StepsUnder(stages[n].phases)

\* the steps extractSteps finds for the format; gitlab-ci finds none on the
\* logs drawn, which have no script, and generic no step-like array
FormatSteps(json, format) ==
  CASE format = "github-actions" ->
         IF IsArray(json.steps) THEN json.steps.items ELSE StepsUnder(json.jobs)
    [] format = "jenkins" ->
         IF IsArray(json.steps) THEN json.steps.items ELSE StepsUnder(json.stages)
    [] format = "azure-devops" ->
         IF IsArray(json.stages)
         THEN AzureSteps(json.stages.items, Len(json.stages.items)) ELSE <<>>
    [] format = "standard" -> IF IsArray(json.steps) THEN json.steps.items ELSE <<>>
    [] OTHER -> <<>>

\* extractSteps: the steps found, or the whole object as one step when none
extractSteps(json, format) ==
  IF Len(FormatSteps(json, format)) > 0 THEN FormatSteps(json, format)
  ELSE << LogAsStep(json) >>

\* the list with the step appended, null steps left out
AppendStep(steps, step) == IF step = None THEN steps ELSE Append(steps, step)

\* rawSteps.map(normalizeStep).filter(s => s !== null), up to the n-th
RECURSIVE NormalizeFrom(_, _)
NormalizeFrom(rawSteps, n) ==
  IF n = 0 THEN <<>>
  ELSE AppendStep(NormalizeFrom(rawSteps, n - 1), normalizeStep(rawSteps[n], n - 1))

\* the normalized log parseUniversalLog builds (lines 573-602)
normalizedLog(logData, format, now) ==
  [ pipeline |-> extractPipelineName(logData, format, now),
    timestamp |-> extractTimestamp(logData, now),
    steps |-> NormalizeFrom(extractSteps(logData, format),
                            Len(extractSteps(logData, format))),
    detectedFormat |-> format ]

\* parseUniversalLog; JSON.parse throws on the string logs drawn, which are
\* plain words and no JSON documents
parseUniversalLog(logData, now) ==
  IF logData.k = "string"
  THEN [threw |-> TRUE, error |-> "Invalid JSON string", log |-> None]
  ELSE IF logData.k # "object"
  THEN [threw |-> TRUE, error |-> "Log data must be a JSON object or JSON string",
        log |-> None]
  ELSE [threw |-> FALSE, error |-> "",
        log |-> normalizedLog(logData, detectFormat(logData), now)]

\* what parseLog makes of the universal parser's result: its log without
\* detectedFormat, or the throw of the standard-format fallback
universalOrFallback(universalResult) ==
  IF ~universalResult.threw
  THEN [threw |-> FALSE, error |-> "",
        log |-> [ pipeline |-> universalResult.log.pipeline,
                  timestamp |-> universalResult.log.timestamp,
                  steps |-> universalResult.log.steps ]]
  ELSE [threw |-> TRUE, error |-> "Failed to parse log", log |-> None]

\* parseLog: the universal parser, then the standard-format fallback, which
\* rejects what the universal parser rejected
parseLog(logData, now) == universalOrFallback(parseUniversalLog(logData, now))

\* validateParsedLog: pipeline and timestamp are strings when present
validateParsedLog(parsedLog) ==
  /\ parsedLog.pipeline.k = "undefined" \/ IsString(parsedLog.pipeline)
  /\ parsedLog.timestamp.k = "undefined" \/ IsString(parsedLog.timestamp)

(***************************************************************************)
(* features/featureExtractor.js                                            *)
(***************************************************************************)
getFeatureNames ==
  << "securityScanCount", "securityStepCount", "readPermissionCount",
     "writePermissionCount", "adminPermissionCount", "secretsUsageCount",
     "approvalStepCount", "avgSecurityStepOrder", "permissionEscalation",
     "totalStepCount", "securityStepRatio", "normalizedFirstSecurityStep",
     "normalizedLastSecurityStep", "secretsWithWriteCount", "stepsWithAdminCount",
     "securityBeforeDeploy", "normalizedAvgStepOrder" >>

getFeatureCount == Len(getFeatureNames)

FeatureNameSet == {getFeatureNames[i] : i \in 1..getFeatureCount}

FeatureIndex(name) == CHOOSE i \in 1..getFeatureCount : getFeatureNames[i] = name

\* typeof f === 'number' && !isNaN(f) && isFinite(f), for every component
validateFeatures(features) ==
  /\ Len(features) = getFeatureCount
  /\ \A i \in 1..Len(features) : features[i].k = "fin"

\* steps.filter(pred).length
CountSteps(steps, Pred(_)) == Cardinality({i \in 1..Len(steps) : Pred(steps[i])})

HasPermission(step, perm) ==
  \E i \in 1..Len(step.permissions) : step.permissions[i] = perm

\* the executionOrder values of the steps that satisfy pred, in order
RECURSIVE OrdersOf(_, _, _)
OrdersOf(steps, Pred(_), n) ==
  IF n = 0 THEN <<>>
  ELSE IF Pred(steps[n]) THEN Append(OrdersOf(steps, Pred, n - 1), steps[n].executionOrder)
  ELSE OrdersOf(steps, Pred, n - 1)

\* the sum, minimum and maximum of JS numbers that are finite or NaN
RECURSIVE SumNumbers(_)
SumNumbers(xs) ==
  IF xs = <<>> THEN Fin(0)
  ELSE IF Head(xs).k # "fin" \/ SumNumbers(Tail(xs)).k # "fin" THEN NaN
  ELSE Fin(Head(xs).v + SumNumbers(Tail(xs)).v)

RECURSIVE MinNumbers(_)
MinNumbers(xs) ==
  IF \E i \in 1..Len(xs) : xs[i].k # "fin" THEN NaN
  ELSE IF Len(xs) = 1 THEN Head(xs)
  ELSE IF Head(xs).v < MinNumbers(Tail(xs)).v THEN Head(xs) ELSE MinNumbers(Tail(xs))

RECURSIVE MaxNumbers(_)
MaxNumbers(xs) ==
  IF \E i \in 1..Len(xs) : xs[i].k # "fin" THEN NaN
  ELSE IF Len(xs) = 1 THEN Head(xs)
  ELSE IF Head(xs).v > MaxNumbers(Tail(xs)).v THEN Head(xs) ELSE MaxNumbers(Tail(xs))

\* x / n for a JS number x and a positive count n
DivideByCount(x, n) == IF x.k = "fin" THEN Fin(DivRound(x.v, n)) ELSE x

\* a < b on JS numbers: false when either is NaN
NumberLess(a, b) == a.k = "fin" /\ b.k = "fin" /\ a.v < b.v

detectPermissionEscalation(steps) ==
  LET level(step) == IF HasPermission(step, <<"a", "d", "m", "i", "n">>) THEN 3
                     ELSE IF HasPermission(step, <<"w", "r", "i", "t", "e">>) THEN 2
                     ELSE IF HasPermission(step, <<"r", "e", "a", "d">>) THEN 1 ELSE 0
  IN /\ Len(steps) >= 2
     /\ \E i \in 2..Len(steps) : level(steps[i]) > level(steps[i - 1])

\* extractFeatures: the 17 features of a parsed log, in the frozen order
extractFeatures(parsedLog) ==
  LET steps == parsedLog.steps
      isSecurity(step) == step.security
      isScan(step) ==
        /\ step.security
        /\ \/ Includes(normalizeStepName(step.name), <<"s", "c", "a", "n">>)
           \/ Includes(normalizeStepName(step.name), <<"c", "h", "e", "c", "k">>)
      hasRead(step) == HasPermission(step, <<"r", "e", "a", "d">>)
      hasWrite(step) == HasPermission(step, <<"w", "r", "i", "t", "e">>)
      hasAdmin(step) == HasPermission(step, <<"a", "d", "m", "i", "n">>)
      usesSecret(step) == step.secrets
      isApproval(step) == step.approval
      secretWrite(step) == step.secrets /\ HasPermission(step, <<"w", "r", "i", "t", "e">>)
      isDeploy(step) == step.type = <<"d", "e", "p", "l", "o", "y">>
      anyStep(step) == TRUE
      totalStepCount == Len(steps)
      securityStepCount == CountSteps(steps, isSecurity)
      adminPermissionCount == CountSteps(steps, hasAdmin)
      securityOrders == OrdersOf(steps, isSecurity, Len(steps))
      deployOrders == OrdersOf(steps, isDeploy, Len(steps))
      avgSecurityStepOrder ==
        IF securityStepCount > 0
        THEN DivideByCount(SumNumbers(securityOrders), securityStepCount)
        ELSE Fin(0)
      firstSecurityStep == IF securityStepCount > 0 THEN MinNumbers(securityOrders) ELSE Fin(0)
      lastSecurityStep == IF securityStepCount > 0 THEN MaxNumbers(securityOrders) ELSE Fin(0)
      firstDeployOrder == IF Len(deployOrders) > 0 THEN MinNumbers(deployOrders)
                          ELSE Fin(1000 * (totalStepCount + 1))
      beforeDeploy(step) == step.security /\ NumberLess(step.executionOrder, firstDeployOrder)
      avgStepOrder ==
        IF totalStepCount > 0
        THEN DivideByCount(SumNumbers(OrdersOf(steps, anyStep, Len(steps))), totalStepCount)
        ELSE Fin(0)
  IN << Fin(1000 * CountSteps(steps, isScan)),
        Fin(1000 * securityStepCount),
        Fin(1000 * CountSteps(steps, hasRead)),
        Fin(1000 * CountSteps(steps, hasWrite)),
        Fin(1000 * adminPermissionCount),
        Fin(1000 * CountSteps(steps, usesSecret)),
        Fin(1000 * CountSteps(steps, isApproval)),
        avgSecurityStepOrder,
        Fin(IF detectPermissionEscalation(steps) THEN 1000 ELSE 0),
        Fin(1000 * totalStepCount),
        IF totalStepCount > 0 THEN Fin(DivRound(1000 * securityStepCount, totalStepCount))
                              ELSE Fin(0),
        IF totalStepCount > 0 THEN DivideByCount(firstSecurityStep, totalStepCount) ELSE Fin(0),
        IF totalStepCount > 0 THEN DivideByCount(lastSecurityStep, totalStepCount) ELSE Fin(0),
        Fin(1000 * CountSteps(steps, secretWrite)),
        Fin(1000 * adminPermissionCount),
        Fin(1000 * CountSteps(steps, beforeDeploy)),
        IF totalStepCount > 0 THEN DivideByCount(avgStepOrder, totalStepCount) ELSE Fin(0) >>

(***************************************************************************)
(* model/driftModel.js: statistics, training, validation                   *)
(***************************************************************************)
\* the stdDev used for a constant feature: 0.1
AdjustedStdDev == 100

RECURSIVE SumSeq(_)
SumSeq(s) == IF s = <<>> THEN 0 ELSE Head(s) + SumSeq(Tail(s))

RECURSIVE MinSeq(_)
MinSeq(s) ==
  IF Len(s) = 1 THEN Head(s)
  ELSE LET m == MinSeq(Tail(s)) IN IF Head(s) < m THEN Head(s) ELSE m

RECURSIVE MaxSeq(_)
MaxSeq(s) ==
  IF Len(s) = 1 THEN Head(s)
  ELSE LET m == MaxSeq(Tail(s)) IN IF Head(s) > m THEN Head(s) ELSE m

\* floor of the square root, by bisection on [lo, hi)
RECURSIVE SqrtBetween(_, _, _)
SqrtBetween(n, lo, hi) ==
  IF hi - lo <= 1 THEN lo
  ELSE LET mid == (lo + hi) \div 2
       IN IF mid * mid <= n THEN SqrtBetween(n, mid, hi) ELSE SqrtBetween(n, lo, mid)

ISqrt(n) == SqrtBetween(n, 0, (IF n < 46340 THEN n ELSE 46340) + 1)

\* sum / length, to the nearest thousandth
calculateMean(values) ==
  IF Len(values) = 0 THEN 0 ELSE DivRound(SumSeq(values), Len(values))

\* population standard deviation; 0.1 for a single sample; a positive variance
\* never rounds down to a zero deviation
calculateStdDev(values, mean) ==
  IF Len(values) = 0 THEN 0
  ELSE IF Len(values) = 1 THEN 100
  ELSE LET variance ==
             SumSeq([i \in 1..Len(values) |-> (values[i] - mean) * (values[i] - mean)])
               \div Len(values)
       IN IF \A i \in 1..Len(values) : values[i] = values[1] THEN 0
          ELSE IF ISqrt(variance) = 0 THEN 1 ELSE ISqrt(variance)

\* the statistics with the deviation as calculateStdDev returned it
FeatureStatsUnadjusted(values) ==
  [ mean |-> Fin(calculateMean(values)),
    stdDev |-> Fin(calculateStdDev(values, calculateMean(values))),
    count |-> Len(values),
    min |-> Fin(MinSeq(values)),
    max |-> Fin(MaxSeq(values)) ]

\* the statistics trainBaselineModel keeps for one feature
FeatureStats(values) ==
  LET mean == calculateMean(values)
      stdDev == calculateStdDev(values, mean)
  IN [ mean |-> Fin(mean),
       stdDev |-> Fin(IF stdDev = 0 THEN AdjustedStdDev ELSE stdDev),
       count |-> Len(values),
       min |-> Fin(MinSeq(values)),
       max |-> Fin(MaxSeq(values)) ]

\* trainBaselineModel: throws on an empty list or an invalid vector
trainBaselineModel(featureVectors, pipelineName) ==
  IF Len(featureVectors) = 0
  THEN [threw |-> TRUE, error |-> "Feature vectors array must be non-empty",
        model |-> None]
  ELSE IF \E i \in 1..Len(featureVectors) : ~validateFeatures(featureVectors[i])
  THEN [threw |-> TRUE, error |-> "Invalid feature vector", model |-> None]
  ELSE [threw |-> FALSE, error |-> "",
        model |->
          [ k |-> "model",
            features |->
              [ f \in FeatureNameSet |->
                  FeatureStats([v \in 1..Len(featureVectors) |->
                                  featureVectors[v][FeatureIndex(f)].v]) ],
            baselineRunCount |-> Len(featureVectors),
            pipelineName |-> pipelineName ]]

\* the statistics retrainModel keeps for a feature the existing model lacks
\* (lines 211-225)
InitialisedStats(newValues) == FeatureStats(newValues)

\* existingFeature.mean || 0 and existingFeature.stdDev || 0.1
MeanOrZero(existingFeature) ==
  IF Truthy(existingFeature.mean) THEN existingFeature.mean.v ELSE 0

StdDevOrFloor(existingFeature) ==
  IF Truthy(existingFeature.stdDev) THEN existingFeature.stdDev.v ELSE AdjustedStdDev

\* Math.sqrt of the weighted mean of the two squared deviations (lines 245-248);
\* a positive sum never rounds down to a zero deviation
combinedStdDev(existingStdDev, existingCount, newStdDev, newCount) ==
  IF existingStdDev * existingStdDev * existingCount + newStdDev * newStdDev * newCount = 0
  THEN 0
  ELSE IF ISqrt((existingStdDev * existingStdDev * existingCount
                   + newStdDev * newStdDev * newCount) \div (existingCount + newCount)) = 0
  THEN 1
  ELSE ISqrt((existingStdDev * existingStdDev * existingCount
                + newStdDev * newStdDev * newCount) \div (existingCount + newCount))

\* Math.min(existingFeature.min || Infinity, ...newValues): a min of 0 is falsy
mergedMin(existingFeature, newValues) ==
  IF Truthy(existingFeature.min)
  THEN MinSeq(<< existingFeature.min.v >> \o newValues)
  ELSE MinSeq(newValues)

\* Math.max(existingFeature.max || -Infinity, ...newValues)
mergedMax(existingFeature, newValues) ==
  IF Truthy(existingFeature.max)
  THEN MaxSeq(<< existingFeature.max.v >> \o newValues)
  ELSE MaxSeq(newValues)

\* the statistics retrainModel keeps for a feature of the existing model
\* (lines 226-259), the deviation passed on once computed; count || 0 is the
\* count, which is a whole number
CombinedWith(existingFeature, newValues, deviation) ==
  [ mean |-> Fin(DivRound(MeanOrZero(existingFeature) * existingFeature.count
                            + calculateMean(newValues) * Len(newValues),
                          existingFeature.count + Len(newValues))),
    stdDev |-> Fin(IF deviation = 0 THEN AdjustedStdDev ELSE deviation),
    count |-> existingFeature.count + Len(newValues),
    min |-> Fin(mergedMin(existingFeature, newValues)),
    max |-> Fin(mergedMax(existingFeature, newValues)) ]

CombinedStats(existingFeature, newValues) ==
  CombinedWith(existingFeature, newValues,
               combinedStdDev(StdDevOrFloor(existingFeature), existingFeature.count,
                              calculateStdDev(newValues, calculateMean(newValues)),
                              Len(newValues)))

\* the values of a feature over the vectors
ValuesOf(featureVectors, f) ==
  [v \in 1..Len(featureVectors) |-> featureVectors[v][FeatureIndex(f)].v]

\* retrainModel(existingModel, newFeatureVectors): throws on a model without
\* features, on an empty list or an invalid vector
retrainModel(existingModel, newFeatureVectors) ==
  IF existingModel.k # "model"
  THEN [threw |-> TRUE, error |-> "Invalid existing model", model |-> None]
  ELSE IF Len(newFeatureVectors) = 0
  THEN [threw |-> TRUE, error |-> "New feature vectors array must be non-empty",
        model |-> None]
  ELSE IF \E i \in 1..Len(newFeatureVectors) : ~validateFeatures(newFeatureVectors[i])
  THEN [threw |-> TRUE, error |-> "Invalid feature vector", model |-> None]
  ELSE [threw |-> FALSE, error |-> "",
        model |->
          [ k |-> "model",
            features |->
              [ f \in FeatureNameSet |->
                  IF f \in DOMAIN existingModel.features
                  THEN CombinedStats(existingModel.features[f], ValuesOf(newFeatureVectors, f))
                  ELSE InitialisedStats(ValuesOf(newFeatureVectors, f)) ],
            baselineRunCount |-> existingModel.baselineRunCount + Len(newFeatureVectors),
            pipelineName |-> existingModel.pipelineName ]]

\* validateModel: every expected feature present with numeric mean and stdDev,
\* and no stdDev below zero (typeof NaN and typeof Infinity are 'number')
validateModel(model) ==
  /\ model.k = "model"
  /\ \A f \in FeatureNameSet :
       /\ f \in DOMAIN model.features
       /\ IsNumber(model.features[f].mean)
       /\ IsNumber(model.features[f].stdDev)
       /\ ~(model.features[f].stdDev.k = "fin" /\ model.features[f].stdDev.v < 0)
       /\ model.features[f].stdDev # NegInf

(***************************************************************************)
(* detector/driftDetector.js                                               *)
(***************************************************************************)
\* FEATURE_WEIGHTS, in tenths
FEATURE_WEIGHTS ==
  [ securityScanCount |-> 15, securityStepCount |-> 14, readPermissionCount |-> 8,
    writePermissionCount |-> 12, adminPermissionCount |-> 20, secretsUsageCount |-> 18,
    approvalStepCount |-> 13, avgSecurityStepOrder |-> 10, permissionEscalation |-> 25,
    totalStepCount |-> 5, securityStepRatio |-> 16, normalizedFirstSecurityStep |-> 11,
    normalizedLastSecurityStep |-> 11, secretsWithWriteCount |-> 22,
    stepsWithAdminCount |-> 20, securityBeforeDeploy |-> 17,
    normalizedAvgStepOrder |-> 9 ]

\* Z_SCORE_THRESHOLDS
Z_NORMAL == 1500
Z_MINOR == 2500
Z_MODERATE == 3500
Z_MAJOR == 4500

\* RISK_LEVEL_THRESHOLDS, in hundredths of a score point
RISK_LOW == 3000
RISK_MEDIUM == 5000
RISK_HIGH == 7000

\* the cap of the score, 100, in hundredths
SCORE_CAP == 10000

\* the stdDev below which calculateZScore divides by 0.1 instead
MIN_STD_DEV == 100

\* value - mean for a finite value
JsMinus(value, mean) ==
  CASE mean.k = "fin" -> Fin(value.v - mean.v)
    [] mean.k = "inf" -> [k |-> "inf", v |-> -mean.v]
    [] OTHER -> NaN

\* a / b on JS numbers
JsDivide(a, b) ==
  CASE a.k = "nan" \/ b.k = "nan" -> NaN
    [] a.k = "inf" /\ b.k = "inf" -> NaN
    [] a.k = "inf" -> [k |-> "inf", v |-> IF b.v < 0 THEN -a.v ELSE a.v]
    [] b.k = "inf" -> Fin(0)
    [] b.v = 0 -> IF a.v = 0 THEN NaN ELSE [k |-> "inf", v |-> IF a.v < 0 THEN -1 ELSE 1]
    [] OTHER -> IF b.v < 0 THEN Fin(DivRound(-(a.v * 1000), -b.v))
                ELSE Fin(DivRound(a.v * 1000, b.v))

calculateZScore(value, mean, stdDev) ==
  IF (stdDev.k = "fin" /\ stdDev.v < MIN_STD_DEV) \/ stdDev = NegInf
  THEN IF JsMinus(value, mean).k = "fin" /\ Abs(JsMinus(value, mean).v) < 10
       THEN Fin(0)
       ELSE JsDivide(JsMinus(value, mean), Fin(MIN_STD_DEV))
  ELSE JsDivide(JsMinus(value, mean), stdDev)

\* Math.abs(zScores[name] || 0): NaN and 0 are falsy
AbsZOrZero(z) ==
  CASE z.k = "nan" -> Fin(0)
    [] z.k = "inf" -> PosInf
    [] OTHER -> Fin(Abs(z.v))

\* the weighted sum of the finite |z|, in ten-thousandths
RECURSIVE WeightedSum(_, _)
WeightedSum(zScores, i) ==
  IF i = 0 THEN 0
  ELSE WeightedSum(zScores, i - 1)
         + AbsZOrZero(zScores[getFeatureNames[i]]).v * FEATURE_WEIGHTS[getFeatureNames[i]]

RECURSIVE TotalWeight(_)
TotalWeight(i) ==
  IF i = 0 THEN 0 ELSE TotalWeight(i - 1) + FEATURE_WEIGHTS[getFeatureNames[i]]

\* a score left as computed, however large
Unclipped(sum, total) == [capped |-> FALSE, v |-> 0]

\* Math.min(100, Math.max(0, x)) for x = 20 * sum / total, in hundredths
ClipScore(sum, total) ==
  IF sum <= 0 THEN [capped |-> TRUE, v |-> 0]
  ELSE IF 2 * sum >= SCORE_CAP * total THEN [capped |-> TRUE, v |-> SCORE_CAP]
  ELSE [capped |-> FALSE, v |-> 0]

\* Math.round(x * 100) / 100 in hundredths: 20 * (sum / 10000) / (total / 10) * 100
RoundScore(sum, total) ==
  ((2 * sum) \div total) + (IF 2 * ((2 * sum) % total) >= total THEN 1 ELSE 0)

calculateDriftScore(zScores) ==
  LET total == TotalWeight(getFeatureCount)
      sum == WeightedSum(zScores, getFeatureCount)
  IN IF total = 0 THEN 0
     ELSE IF \E f \in FeatureNameSet : zScores[f].k = "inf" THEN ClipScore(SCORE_CAP * total, total).v
     ELSE IF ClipScore(sum, total).capped THEN ClipScore(sum, total).v
     ELSE RoundScore(sum, total)

\* the levels with every threshold compared by < instead of <=
riskLevelExclusive(driftScore) ==
  IF driftScore < RISK_LOW THEN "low"
  ELSE IF driftScore < RISK_MEDIUM THEN "medium"
  ELSE IF driftScore < RISK_HIGH THEN "high"
  ELSE "critical"

calculateRiskLevel(driftScore) ==
  IF driftScore <= RISK_LOW THEN "low"
  ELSE IF driftScore <= RISK_MEDIUM THEN "medium"
  ELSE IF driftScore <= RISK_HIGH THEN "high"
  ELSE "critical"

\* Math.abs(z) < t and Math.abs(z) >= t; both are false for NaN
ZAbsLt(z, t) == z.k = "fin" /\ Abs(z.v) < t
ZAbsGeq(z, t) == z.k = "inf" \/ (z.k = "fin" /\ Abs(z.v) >= t)
ZNegative(z) == z.k # "nan" /\ z.v < 0
ZPositive(z) == z.k # "nan" /\ z.v > 0

\* the severity ladders of issueMappings
SeverityFromLow(z) ==
  IF ZAbsLt(z, Z_MINOR) THEN "low"
  ELSE IF ZAbsLt(z, Z_MODERATE) THEN "medium"
  ELSE IF ZAbsLt(z, Z_MAJOR) THEN "high" ELSE "critical"

SeverityFromMedium(z) ==
  IF ZAbsLt(z, Z_MINOR) THEN "medium"
  ELSE IF ZAbsLt(z, Z_MODERATE) THEN "high" ELSE "critical"

SeverityToHigh(z) ==
  IF ZAbsLt(z, Z_MINOR) THEN "low"
  ELSE IF ZAbsLt(z, Z_MODERATE) THEN "medium" ELSE "high"

\* issueMappings: type, condition and severity per feature
issueMappings(featureName, z) ==
  LET isDecrease == ZNegative(z)
  IN CASE featureName \in {"securityScanCount", "securityStepCount", "securityStepRatio"} ->
            [mapped |-> TRUE, type |-> "security_scan_removed", condition |-> isDecrease,
             severity |-> SeverityFromLow(z)]
       [] featureName = "adminPermissionCount" ->
            [mapped |-> TRUE, type |-> "permission_escalation", condition |-> ~isDecrease,
             severity |-> SeverityFromMedium(z)]
       [] featureName = "permissionEscalation" ->
            [mapped |-> TRUE, type |-> "permission_escalation", condition |-> ~isDecrease,
             severity |-> "high"]
       [] featureName = "secretsUsageCount" ->
            [mapped |-> TRUE, type |-> "secrets_exposure", condition |-> TRUE,
             severity |-> SeverityFromLow(z)]
       [] featureName = "secretsWithWriteCount" ->
            [mapped |-> TRUE, type |-> "secrets_exposure", condition |-> ~isDecrease,
             severity |-> SeverityFromMedium(z)]
       [] featureName = "approvalStepCount" ->
            [mapped |-> TRUE, type |-> "approval_bypassed", condition |-> isDecrease,
             severity |-> SeverityFromLow(z)]
       [] featureName = "securityBeforeDeploy" ->
            [mapped |-> TRUE, type |-> "execution_order_changed", condition |-> isDecrease,
             severity |-> SeverityToHigh(z)]
       [] featureName = "normalizedFirstSecurityStep" ->
            [mapped |-> TRUE, type |-> "execution_order_changed", condition |-> ~isDecrease,
             severity |-> SeverityToHigh(z)]
       [] OTHER ->
            [mapped |-> FALSE, type |-> "", condition |-> FALSE, severity |-> ""]

\* mapToSecurityIssue: the issues (none or one) for a feature; the issue id is
\* a fresh UUID and is left out
mapToSecurityIssue(featureName, z) ==
  IF ZAbsLt(z, Z_NORMAL) THEN <<>>
  ELSE IF ~issueMappings(featureName, z).mapped \/ ~issueMappings(featureName, z).condition
  THEN <<>>
  ELSE << [ type |-> issueMappings(featureName, z).type,
            severity |-> issueMappings(featureName, z).severity,
            step |-> featureName ] >>

\* generateFeatureExplanation: the feature, the direction and the magnitude word
generateFeatureExplanation(featureName, z) ==
  [ feature |-> featureName,
    direction |-> IF ZPositive(z) THEN "increased" ELSE "decreased",
    magnitude |-> IF ZAbsLt(z, Z_MINOR) THEN "slightly"
                  ELSE IF ZAbsLt(z, Z_MODERATE) THEN "moderately"
                  ELSE IF ZAbsLt(z, Z_MAJOR) THEN "significantly" ELSE "dramatically" ]

ZScoresOf(featureVector, model) ==
  [ f \in FeatureNameSet |->
      calculateZScore(featureVector[FeatureIndex(f)],
                      model.features[f].mean, model.features[f].stdDev) ]

RECURSIVE IssuesUpTo(_, _)
IssuesUpTo(zScores, i) ==
  IF i = 0 THEN <<>>
  ELSE IssuesUpTo(zScores, i - 1)
         \o mapToSecurityIssue(getFeatureNames[i], zScores[getFeatureNames[i]])

RECURSIVE ExplanationsUpTo(_, _)
ExplanationsUpTo(zScores, i) ==
  IF i = 0 THEN <<>>
  ELSE ExplanationsUpTo(zScores, i - 1)
         \o (IF ZAbsGeq(zScores[getFeatureNames[i]], Z_NORMAL)
             THEN << generateFeatureExplanation(getFeatureNames[i],
                                                zScores[getFeatureNames[i]]) >>
             ELSE <<>>)

(***************************************************************************)
(* The model file: JSON.stringify, JSON.parse, saveModel, loadModel        *)
(***************************************************************************)
\* baseline-model.json in data/models
DEFAULT_MODEL_PATH == <<"b", "a", "s", "e", "l", "i", "n", "e", "-", "m", "o", "d", "e", "l", ".", "j", "s", "o", "n">>

\* `${modelName}-model.json`
NamedModelPath(modelName) == modelName \o <<"-", "m", "o", "d", "e", "l", ".", "j", "s", "o", "n">>

\* a number as JSON.stringify writes it and JSON.parse reads it back: NaN and
\* the infinities become null
JsonNumber(x) == IF x.k = "fin" THEN x ELSE Null

\* the keys a features object may hold, in the order Object.keys gives them:
\* the 17 feature names and one name the extractor does not know
MODEL_KEY_ORDER == getFeatureNames \o << "buildDuration" >>

\* Object.keys(model.features)
FeatureKeys(model) ==
  SelectSeq(MODEL_KEY_ORDER, LAMBDA name : name \in DOMAIN model.features)

\* the entries of the features object, one per key
FeatureEntries(model, keys) ==
  [ i \in 1..Len(keys) |->
      [ t |-> "feature", name |-> keys[i],
        mean |-> JsonNumber(model.features[keys[i]].mean),
        stdDev |-> JsonNumber(model.features[keys[i]].stdDev),
        count |-> model.features[keys[i]].count,
        min |-> JsonNumber(model.features[keys[i]].min),
        max |-> JsonNumber(model.features[keys[i]].max) ] ]

\* JSON.stringify(model, null, 2) as the sequence of its parts: the opening
\* brace, one entry per feature, the metadata, the closing brace
JSONstringify(model) ==
  << [t |-> "{"] >>
    \o FeatureEntries(model, FeatureKeys(model))
    \o << [ t |-> "meta", baselineRunCount |-> model.baselineRunCount,
            pipelineName |-> model.pipelineName ] >>
    \o << [t |-> "}"] >>

\* the text is a whole document: it opens, closes and has every part between
WellFormed(text) ==
  /\ Len(text) >= 3
  /\ text[1].t = "{"
  /\ text[Len(text)].t = "}"
  /\ text[Len(text) - 1].t = "meta"
  /\ \A i \in 2..(Len(text) - 2) : text[i].t = "feature"

\* the entry of the text that carries the feature
EntryOf(text, name) == text[CHOOSE i \in 2..(Len(text) - 2) : text[i].name = name]

\* JSON.parse: a SyntaxError on an empty or cut-off text
JSONparse(text) ==
  IF ~WellFormed(text) THEN [threw |-> TRUE, value |-> None]
  ELSE [threw |-> FALSE,
        value |->
          [ k |-> "model",
            features |->
              [ f \in { text[i].name : i \in 2..(Len(text) - 2) } |->
                  [ mean |-> EntryOf(text, f).mean,
                    stdDev |-> EntryOf(text, f).stdDev,
                    count |-> EntryOf(text, f).count,
                    min |-> EntryOf(text, f).min,
                    max |-> EntryOf(text, f).max ] ],
            baselineRunCount |-> text[Len(text) - 1].baselineRunCount,
            pipelineName |-> text[Len(text) - 1].pipelineName ]]

NoFile == [exists |-> FALSE, text |-> <<>>]

\* fs.existsSync(path): false for null and for a path that names no file
existsSync(path, fs) ==
  /\ path.k = "string"
  /\ path.s \in DOMAIN fs
  /\ fs[path.s].exists

\* saveModel(model, filePath) in one piece: the file system after it, or the
\* throw when the model directory is missing
saveModel(model, filePath, fs, dirExists) ==
  IF ~dirExists
  THEN [threw |-> TRUE, error |-> "Model directory does not exist", fs |-> fs]
  ELSE [threw |-> FALSE, error |-> "",
        fs |-> [fs EXCEPT ![filePath] = [exists |-> TRUE, text |-> JSONstringify(model)]]]

\* what loadModel makes of the text it read
parseModelText(text) ==
  IF JSONparse(text).threw
  THEN [threw |-> TRUE, error |-> "Invalid JSON in model file", model |-> None]
  ELSE [threw |-> FALSE, error |-> "", model |-> JSONparse(text).value]

\* the default parameter filePath = DEFAULT_MODEL_PATH: taken for undefined only
defaultFilePath(filePath) ==
  IF filePath.k = "undefined" THEN Str(DEFAULT_MODEL_PATH) ELSE filePath

\* loadModel(filePath)
loadModel(filePath, fs) ==
  IF ~existsSync(defaultFilePath(filePath), fs)
  THEN [threw |-> TRUE, error |-> "Model file does not exist", model |-> None]
  ELSE parseModelText(fs[defaultFilePath(filePath).s].text)

\* the value randomUUID() returns on its n-th call
Uuid(n) == [k |-> "uuid", n |-> n]

(***************************************************************************)
(* detectDrift                                                             *)
(***************************************************************************)
\* the option left undefined when the caller names no path, which is what the
\* default parameter of loadModel needs in order to apply
modelPathUnset(options) == Or(options.modelPath, Undefined)

\* const modelPath = options.modelPath || null
modelPathOption(options) == Or(options.modelPath, Null)

\* the catch around loadModel (lines 298-302): its throw rethrown with a prefix
loadedOrRethrown(loaded) ==
  IF loaded.threw
  THEN [threw |-> TRUE, error |-> "Failed to load baseline model", model |-> None]
  ELSE loaded

\* the model detectDrift works with: options.model, else the file
modelForDetection(options, fs) ==
  IF options.model.k # "undefined"
  THEN [threw |-> FALSE, error |-> "", model |-> options.model]
  ELSE loadedOrRethrown(loadModel(modelPathOption(options), fs))

\* a result whose explanations carry the time of the call
resultObjectDated(zScores, driftScore, pipelineName, id, now) ==
  [ k |-> "analysis",
    id |-> id,
    pipelineName |-> Or(pipelineName, Str(<<"u", "n", "k", "n", "o", "w", "n">>)),
    driftScore |-> driftScore,
    riskLevel |-> calculateRiskLevel(driftScore),
    timestamp |-> Timestamp(now, 0),
    issues |-> IssuesUpTo(zScores, getFeatureCount),
    explanations |->
      [ i \in 1..Len(ExplanationsUpTo(zScores, getFeatureCount)) |->
          [ feature |-> ExplanationsUpTo(zScores, getFeatureCount)[i].feature,
            direction |-> ExplanationsUpTo(zScores, getFeatureCount)[i].direction,
            magnitude |-> << ExplanationsUpTo(zScores, getFeatureCount)[i].magnitude, now >> ] ],
    parsedSteps |-> <<>> ]

\* the result object (lines 353-364); zScores and featureVector are part of
\* the result in the code and are not kept here
resultObject(zScores, driftScore, pipelineName, id, now) ==
  [ k |-> "analysis",
    id |-> id,
    pipelineName |-> Or(pipelineName, Str(<<"u", "n", "k", "n", "o", "w", "n">>)),
    driftScore |-> driftScore,
    riskLevel |-> calculateRiskLevel(driftScore),
    timestamp |-> Timestamp(now, 0),
    issues |-> IssuesUpTo(zScores, getFeatureCount),
    explanations |-> ExplanationsUpTo(zScores, getFeatureCount),
    parsedSteps |-> <<>> ]

\* the result built from a validated vector and model
driftResult(featureVector, model, pipelineName, id, now) ==
  resultObject(ZScoresOf(featureVector, model),
               calculateDriftScore(ZScoresOf(featureVector, model)),
               pipelineName, id, now)

\* detectDrift once the vector is validated and the model settled
detectWithModel(featureVector, loaded, pipelineName, id, now) ==
  IF loaded.threw
  THEN [threw |-> TRUE, error |-> loaded.error, analysis |-> None]
  ELSE IF ~validateModel(loaded.model)
  THEN [threw |-> TRUE, error |-> "Invalid baseline model", analysis |-> None]
  ELSE [threw |-> FALSE, error |-> "",
        analysis |-> driftResult(featureVector, loaded.model, pipelineName, id, now)]

\* detectDrift(featureVector, options); id is the randomUUID() it draws and
\* now the clock it reads
detectDrift(featureVector, options, fs, id, now) ==
  IF ~validateFeatures(featureVector)
  THEN [threw |-> TRUE, error |-> "Invalid feature vector", analysis |-> None]
  ELSE detectWithModel(featureVector, modelForDetection(options, fs),
                       options.pipelineName, id, now)

(***************************************************************************)
(* utils/storage.js and utils/database.js: the analyses collection         *)
(***************************************************************************)
\* collection.findOne({ id }): the first document with the id, or None
findOne(collection, id) ==
  IF \E i \in 1..Len(collection) : collection[i].id = id
  THEN collection[CHOOSE i \in 1..Len(collection) :
                    /\ collection[i].id = id
                    /\ \A j \in 1..(i - 1) : collection[j].id # id]
  ELSE None

\* collection.updateOne({ id }, { $set: analysis }): the first match replaced
updateOne(collection, analysis) ==
  [ i \in 1..Len(collection) |->
      IF collection[i].id = analysis.id
         /\ \A j \in 1..(i - 1) : collection[j].id # analysis.id
      THEN analysis ELSE collection[i] ]

\* collection.insertOne(analysis): a duplicate key error under the unique
\* index on id that createIndexes asked for
insertOne(collection, analysis, hasUniqueIndex) ==
  IF hasUniqueIndex /\ findOne(collection, analysis.id) # None
  THEN [threw |-> TRUE, collection |-> collection]
  ELSE [threw |-> FALSE, collection |-> Append(collection, analysis)]

\* storeAnalysis(analysis) run without interruption
storeAnalysis(collection, analysis, connected, hasUniqueIndex) ==
  IF analysis.k # "analysis" \/ ~Truthy(analysis.id)
  THEN [threw |-> TRUE, error |-> "Invalid analysis: id is required",
        collection |-> collection]
  ELSE IF ~connected
  THEN [threw |-> TRUE, error |-> "Failed to store analysis", collection |-> collection]
  ELSE IF findOne(collection, analysis.id) # None
  THEN [threw |-> FALSE, error |-> "", collection |-> updateOne(collection, analysis)]
  ELSE IF insertOne(collection, analysis, hasUniqueIndex).threw
  THEN [threw |-> TRUE, error |-> "Failed to store analysis", collection |-> collection]
  ELSE [threw |-> FALSE, error |-> "",
        collection |-> insertOne(collection, analysis, hasUniqueIndex).collection]

\* the documents a query matches, as positions in the collection
Matching(collection, pipeline, since) ==
  { i \in 1..Len(collection) :
      /\ ~Truthy(pipeline) \/ collection[i].pipelineName = pipeline
      /\ ~Truthy(since) \/ ~StringLess(collection[i].timestamp, since) }

\* sort { timestamp: -1 }: every order of the matches in which no document
\* comes before one with a greater timestamp string; ties come in any order
SortedByTimestampDesc(collection, matches) ==
  { order \in [1..Cardinality(matches) -> matches] :
      /\ \A i, j \in 1..Cardinality(matches) : i # j => order[i] # order[j]
      /\ \A i, j \in 1..Cardinality(matches) :
           i < j => ~StringLess(collection[order[i]].timestamp,
                                collection[order[j]].timestamp) }

\* the first n entries
Take(list, n) == IF n >= Len(list) THEN list ELSE SubSeq(list, 1, n)

\* Math.min(filters.limit, 1000), the cap on a query's limit
MAX_QUERY_LIMIT == 1000

\* getAnalysisHistory(filters): the lists the query may return
getAnalysisHistory(collection, pipeline, limit, since) ==
  { Take([i \in 1..Len(order) |-> collection[order[i]]],
         IF limit > 0
         THEN (IF limit < MAX_QUERY_LIMIT THEN limit ELSE MAX_QUERY_LIMIT)
         ELSE Len(order)) :
      order \in SortedByTimestampDesc(collection, Matching(collection, pipeline, since)) }

\* getAnalysesByPipeline(pipelineName, limit)
getAnalysesByPipeline(collection, pipelineName, limit) ==
  { Take([i \in 1..Len(order) |-> collection[order[i]]], limit) :
      order \in SortedByTimestampDesc(collection,
                  {i \in 1..Len(collection) : collection[i].pipelineName = pipelineName}) }

(***************************************************************************)
(* report/reportGenerator.js                                               *)
(***************************************************************************)
\* calculateScoreTrend: None, or the direction against the first earlier
\* analysis of the same pipeline in the history
calculateScoreTrend(currentAnalysis, history) ==
  LET earlier == { i \in 1..Len(history) :
                     /\ history[i].pipelineName = currentAnalysis.pipelineName
                     /\ history[i].id # currentAnalysis.id
                     /\ StringLess(history[i].timestamp, currentAnalysis.timestamp) }
  IN IF Len(history) < 2 \/ earlier = {} THEN None
     ELSE LET previous == history[CHOOSE i \in earlier : \A j \in earlier : i <= j]
              change == currentAnalysis.driftScore - previous.driftScore
          IN [ k |-> "trend",
               direction |-> IF change > 0 THEN "up" ELSE IF change < 0 THEN "down"
                             ELSE "neutral",
               previousScore |-> previous.driftScore ]

\* formatDriftAnalysis
formatDriftAnalysis(analysis, history) ==
  [ k |-> "formatted",
    id |-> analysis.id,
    pipelineName |-> analysis.pipelineName,
    driftScore |-> analysis.driftScore,
    riskLevel |-> analysis.riskLevel,
    timestamp |-> analysis.timestamp,
    issues |-> analysis.issues,
    trend |-> calculateScoreTrend(analysis, history) ]

(***************************************************************************)
(* The requests and values the model draws                                 *)
(***************************************************************************)
RawStep(name, executionOrder, permissions) ==
  [ k |-> "object", name |-> Str(name), type |-> Undefined,
    executionOrder |-> executionOrder, order |-> Undefined, index |-> Undefined,
    run_number |-> Undefined, permissions |-> permissions,
    security |-> Undefined, secrets |-> Undefined, approval |-> Undefined ]

RawLog(pipeline, timestamp, steps) ==
  [ k |-> "object", pipeline |-> pipeline, pipelineName |-> Undefined,
    name |-> Undefined, workflow |-> Undefined, timestamp |-> timestamp,
    steps |-> steps, jobs |-> Undefined, stages |-> Undefined ]

\* a stage of a Jenkins or Azure DevOps log, and a job or phase of a stage
RawStage(steps, jobs, phases) ==
  [ k |-> "object", steps |-> steps, jobs |-> jobs, phases |-> phases ]

RawJob(steps) == [ k |-> "object", steps |-> steps ]

\* a build, a scan and a deploy that writes
LogA ==
  RawLog(Str(<<"w", "e", "b">>), Timestamp(1, 0),
         Arr(<< RawStep(<<"b", "u", "i", "l", "d">>, Undefined, Arr(<< <<"r", "e", "a", "d">> >>)),
                RawStep(<<"S", "c", "a", "n">>, Undefined, Undefined),
                RawStep(<<"d", "e", "p", "l", "o", "y">>, Undefined, Arr(<< <<"w", "r", "i", "t", "e">> >>)) >>))

\* the scan gone, the deploy pushed as admin with a key
LogB ==
  RawLog(Str(<<"w", "e", "b">>), Timestamp(2, 1),
         Arr(<< RawStep(<<"b", "u", "i", "l", "d">>, Undefined, Arr(<< <<"r", "e", "a", "d">> >>)),
                RawStep(<<"p", "u", "s", "h", " ", "k", "e", "y">>, Undefined, Arr(<< <<"w", "r", "i", "t", "e">>, <<"a", "d", "m", "i", "n">> >>)) >>))

\* a step whose executionOrder is no number
LogNaN ==
  RawLog(Str(<<"w", "e", "b">>), Undefined,
         Arr(<< RawStep(<<"s", "c", "a", "n">>, Str(<<"a", "b", "c">>), Undefined) >>))

\* the log names a pipeline the production check refuses
LogDummy == RawLog(Str(<<"d", "u", "m", "m", "y">>), Undefined, Undefined)

\* the log of LogA that names its pipeline under pipelineName, a name the
\* production check refuses
LogSampleRun ==
  [ LogA EXCEPT !.pipeline = Undefined, !.pipelineName = Str(<<"S", "a", "m", "p", "l", "e", "-", "r", "u", "n">>) ]

\* the log of LogB that names its pipeline under name only
LogNamed ==
  [ LogB EXCEPT !.pipeline = Undefined, !.name = Str(<<"r", "e", "l", "e", "a", "s", "e">>) ]

\* a string that is no JSON document
LogText == Str(<<"o", "o", "p", "s">>)

PipelineInputs == { Undefined, Str(<<"w", "e", "b">>), Str(<<"M", "o", "c", "k">>) }
LogInputs == { Undefined, LogA, LogNaN, LogDummy, LogSampleRun, LogNamed, LogText }
TimestampInputs == { Undefined, Timestamp(2, 1), Fin(5000) }

AnalyzeBodies ==
  { Undefined }
    \cup { [k |-> "object", pipeline |-> p, log |-> l, timestamp |-> t] :
             p \in PipelineInputs, l \in LogInputs, t \in TimestampInputs }

\* the baselineLogs arrays drawn: none, one log, two good logs, a good log
\* with one that does not parse, a good log with one whose vector is invalid
TrainBatches ==
  { <<>>, << LogA >>, << LogA, LogB >>, << LogA, LogText >>, << LogA, LogNaN >>,
    << LogText, LogA, LogB >> }

TrainBodies ==
  { Undefined }
    \cup { [k |-> "object", baselineLogs |-> logs, modelName |-> name] :
             logs \in { Undefined, Str(<<"l", "o", "g", "s">>) } \cup { Arr(s) : s \in TrainBatches },
             name \in { Undefined, Str(<<"w", "e", "b">>) } }

FilenameInputs ==
  { <<"p", "i", "p", "e", "l", "i", "n", "e", "-", "l", "o", "g", "-", "1", ".", "j", "s", "o", "n">>, <<"p", "i", "p", "e", "l", "i", "n", "e", "-", "l", "o", "g", "-", "m", "o", "c", "k", ".", "j", "s", "o", "n">>, <<"p", "i", "p", "e", "l", "i", "n", "e", "-", "l", "o", "g", "-", "x", ".", "j", "s", "o", "n">>,
    <<"p", "i", "p", "e", "l", "i", "n", "e", "-", "l", "o", "g", "-", "9", ".", "j", "s", "o", "n">>, <<"n", "o", "t", "e", "s", ".", "j", "s", "o", "n">> }

\* the limit of the query string: absent, empty, whole numbers, 1001, a
\* number followed by letters, a word
LimitInputs ==
  { Undefined, Str(<<>>), Str(<<"1">>), Str(<<"2">>), Str(<<"0">>), Str(<<"1", "0", "0", "1">>), Str(<<"1", "x">>),
    Str(<<"m", "a", "n", "y">>) }

\* the since of the query string: absent, 00:00Z, 01:00Z
SinceInputs == { Undefined, Timestamp(0, 0), Timestamp(1, 0) }

Clock == 0..MaxHour

ModelPaths == { DEFAULT_MODEL_PATH, NamedModelPath(<<"w", "e", "b">>) }

\* analyses the database holds when the server starts
StoredAnalysis(n, pipeline, score, timestamp) ==
  [ k |-> "analysis", id |-> Uuid(n), pipelineName |-> Str(pipeline),
    driftScore |-> score, riskLevel |-> calculateRiskLevel(score),
    timestamp |-> timestamp, issues |-> <<>>, explanations |-> <<>>,
    parsedSteps |-> <<>> ]

InitialStore ==
  << StoredAnalysis(0, <<"w", "e", "b">>, 1250, Timestamp(0, 0)),
     StoredAnalysis(-1, <<"a", "p", "i">>, 6400, Timestamp(1, 0)) >>

\* the project root's pipeline log files, by name: the JSON document in each
PipelineLogFiles ==
  [ name \in { <<"p", "i", "p", "e", "l", "i", "n", "e", "-", "l", "o", "g", "-", "1", ".", "j", "s", "o", "n">>, <<"p", "i", "p", "e", "l", "i", "n", "e", "-", "l", "o", "g", "-", "m", "o", "c", "k", ".", "j", "s", "o", "n">>, <<"p", "i", "p", "e", "l", "i", "n", "e", "-", "l", "o", "g", "-", "x", ".", "j", "s", "o", "n">> } |->
      CASE name = <<"p", "i", "p", "e", "l", "i", "n", "e", "-", "l", "o", "g", "-", "1", ".", "j", "s", "o", "n">> ->
             RawLog(Str(<<"w", "e", "b">>), Timestamp(1, 0),
                    Arr(<< RawStep(<<"s", "c", "a", "n">>, Undefined, Undefined) >>))
        [] name = <<"p", "i", "p", "e", "l", "i", "n", "e", "-", "l", "o", "g", "-", "m", "o", "c", "k", ".", "j", "s", "o", "n">> -> RawLog(Undefined, Undefined, Undefined)
        [] OTHER -> [k |-> "invalid-json"] ]

(***************************************************************************)
(* parseLog and extractFeatures read nothing but their arguments: their    *)
(* results on the logs that requests and log files carry, computed once    *)
(***************************************************************************)
RequestLogs ==
  LogInputs
    \cup UNION { { batch[i] : i \in 1..Len(batch) } : batch \in TrainBatches }
    \cup { PipelineLogFiles[name] : name \in DOMAIN PipelineLogFiles }

ParseLogResults ==
  { [logData |-> logData, now |-> now, result |-> parseLog(logData, now)] :
      logData \in RequestLogs, now \in Clock }

\* parseLog(logData) at the hour now
parseLogResult(logData, now) ==
  (CHOOSE e \in ParseLogResults : e.logData = logData /\ e.now = now).result

ExtractFeaturesResults ==
  { [steps |-> e.result.log.steps, features |-> extractFeatures(e.result.log)] :
      e \in { x \in ParseLogResults : ~x.result.threw } }

\* extractFeatures(parsedLog), which reads parsedLog.steps alone
extractFeaturesResult(parsedLog) ==
  (CHOOSE e \in ExtractFeaturesResults : e.steps = parsedLog.steps).features

(***************************************************************************)
(* api/driftRoutes.js: the handlers as functions of the request and of     *)
(* the state they read                                                     *)
(***************************************************************************)
\* what a handler answered, with how far it got
Response(route, status, error) ==
  [ route |-> route, status |-> status, error |-> error,
    pipelineName |-> Undefined, parsed |-> FALSE, vectorValid |-> FALSE,
    listed |-> FALSE, vectors |-> 0, validVectors |-> 0, errors |-> <<>>,
    analysis |-> None, body |-> None ]

NoResponse == Response("", 0, "")

\* no request made yet
NoRequest == [route |-> ""]

\* obj.field for a request value that may be a string or undefined
Field(obj, name) ==
  IF obj.k # "object" THEN Undefined
  ELSE CASE name = "pipeline" -> obj.pipeline
         [] name = "pipelineName" -> obj.pipelineName
         [] name = "timestamp" -> obj.timestamp
         [] OTHER -> Undefined

\* a production check that looks for the four words as they are written
productionGuardCaseSensitive(nodeEnv, pipeline, log) ==
  LET pipelineName == Or(Or(Or(pipeline, Field(log, "pipeline")),
                            Field(log, "pipelineName")), Str(<<>>))
  IN IF nodeEnv # "production" THEN "pass"
     ELSE IF pipelineName.k # "string" THEN "throw"
     ELSE IF \/ Includes(pipelineName.s, <<"t", "e", "s", "t">>) \/ Includes(pipelineName.s, <<"s", "a", "m", "p", "l", "e">>)
             \/ Includes(pipelineName.s, <<"m", "o", "c", "k">>) \/ Includes(pipelineName.s, <<"d", "u", "m", "m", "y">>)
     THEN "reject"
     ELSE "pass"

\* the production check of POST /analyze (lines 40-53): "pass", "reject", or
\* "throw" when toLowerCase is called on a value that is no string
productionGuard(nodeEnv, pipeline, log) ==
  LET pipelineName == Or(Or(Or(pipeline, Field(log, "pipeline")),
                            Field(log, "pipelineName")), Str(<<>>))
  IN IF nodeEnv # "production" THEN "pass"
     ELSE IF pipelineName.k # "string" THEN "throw"
     ELSE IF IsTestName(pipelineName.s) THEN "reject"
     ELSE "pass"

\* step 3 of both routes (lines 103-118): the analysis with the request's
\* timestamp and the parsed steps, or 500
detectStep(route, parsedLog, features, detected) ==
  IF detected.threw
  THEN [ Response(route, 500, "Drift detection failed") EXCEPT
           !.pipelineName = parsedLog.pipeline, !.parsed = TRUE,
           !.vectorValid = validateFeatures(features) ]
  ELSE [ Response(route, 200, "") EXCEPT
           !.pipelineName = parsedLog.pipeline, !.parsed = TRUE, !.vectorValid = TRUE,
           !.analysis = [ detected.analysis EXCEPT
                            !.timestamp = parsedLog.timestamp,
                            !.parsedSteps = parsedLog.steps ] ]

\* steps 2 and 3 (lines 91-118).  extractFeatures cannot throw on a log that
\* parseLog returned, so its catch is not reached.
extractStep(route, parsedLog, features, fs, id, now) ==
  detectStep(route, parsedLog, features,
             detectDrift(features,
                         [ model |-> Undefined, modelPath |-> Undefined,
                           pipelineName |-> parsedLog.pipeline ],
                         fs, id, now))

\* the end of step 1 (lines 73-89): the parsed log under the request's
\* pipeline name, validated
validateStep(route, parsedLog, fs, id, now) ==
  IF ~validateParsedLog(parsedLog)
  THEN [ Response(route, 400, "Invalid log format") EXCEPT
           !.pipelineName = parsedLog.pipeline, !.parsed = TRUE ]
  ELSE extractStep(route, parsedLog, extractFeaturesResult(parsedLog), fs, id, now)

\* step 1 (lines 69-89) given what parseLog returned or threw
parseStep(route, parsed, pipelineName, logTimestamp, fs, id, now) ==
  IF parsed.threw
  THEN [ Response(route, 400, "Invalid log format") EXCEPT
           !.pipelineName = pipelineName ]
  ELSE validateStep(route,
                    [ pipeline |-> pipelineName, timestamp |-> logTimestamp,
                      steps |-> parsed.log.steps ],
                    fs, id, now)

\* steps 1 to 3 of POST /analyze and of POST /pipeline-logs/:filename/process:
\* parse, validate, extract, detect
analysisSteps(route, logData, pipelineName, logTimestamp, fs, id, now) ==
  parseStep(route, parseLogResult(logData, now), pipelineName, logTimestamp, fs, id, now)

\* the production check's answer (lines 40-53), or the steps
guardedSteps(guard, body, pipelineName, fs, id, now) ==
  IF guard = "throw"
  THEN Response("analyze", 500, "Internal server error")
  ELSE IF guard = "reject"
  THEN [ Response("analyze", 400, "Invalid request") EXCEPT !.pipelineName = pipelineName ]
  ELSE IF ~Truthy(body.log)
  THEN Response("analyze", 400, "Invalid request")
  ELSE analysisSteps("analyze", body.log,
                     Or(pipelineName, Str(<<"u", "n", "k", "n", "o", "w", "n", "-", "p", "i", "p", "e", "l", "i", "n", "e">>)),
                     Or(Or(body.timestamp, Field(body.log, "timestamp")), Timestamp(now, 0)),
                     fs, id, now)

\* POST /analyze up to the end of step 3 (lines 28-118)
analyzeOutcome(body, nodeEnv, fs, id, now) ==
  IF body.k # "object"
  THEN Response("analyze", 400, "Invalid request")
  ELSE guardedSteps(productionGuard(nodeEnv, body.pipeline, body.log), body,
                    Or(Or(body.pipeline, Field(body.log, "pipeline")),
                       Field(body.log, "pipelineName")),
                    fs, id, now)

\* a persist step that writes a record for every outcome, the failed ones too
persistEveryOutcome(outcome, collection, connected, hasUniqueIndex) ==
  [ threw |-> FALSE, called |-> TRUE,
    collection |->
      Append(collection,
             IF outcome.analysis # None THEN outcome.analysis
             ELSE [ k |-> "analysis", id |-> Null, pipelineName |-> outcome.pipelineName,
                    driftScore |-> 0, riskLevel |-> "low", timestamp |-> Timestamp(0, 0),
                    issues |-> <<>>, explanations |-> <<>>, parsedSteps |-> <<>> ]) ]

\* a persist step that keeps only what the request at hand produced
persistLatestOnly(outcome, collection, connected, hasUniqueIndex) ==
  [ threw |-> FALSE, called |-> TRUE,
    collection |-> IF outcome.analysis # None THEN << outcome.analysis >> ELSE <<>> ]

\* what the persist step makes of a storeAnalysis call
persisted(stored) ==
  [threw |-> stored.threw, called |-> TRUE, collection |-> stored.collection]

\* step 4 of both routes: storeAnalysis is reached only with an analysis
persistStep(outcome, collection, connected, hasUniqueIndex) ==
  IF outcome.analysis = None
  THEN [threw |-> FALSE, called |-> FALSE, collection |-> collection]
  ELSE persisted(storeAnalysis(collection, outcome.analysis, connected, hasUniqueIndex))

\* the recent history step 5 reads: limit 10, the pipeline of the request
RECENT_HISTORY_LIMIT == 10

\* step 5 of POST /analyze: a failed read leaves the history empty
recentHistory(collection, connected, pipelineName) ==
  IF ~connected THEN { <<>> }
  ELSE getAnalysisHistory(collection, pipelineName, RECENT_HISTORY_LIMIT, Undefined)

\* steps 4 to 6 of POST /analyze (lines 120-145): the answer given the
\* outcome of step 3 and the history read
analyzeAnswer(outcome, history) ==
  IF outcome.analysis = None THEN outcome
  ELSE [ outcome EXCEPT !.body = formatDriftAnalysis(outcome.analysis, history) ]

ValidLogFilename(filename) ==
  StartsWith(filename, <<"p", "i", "p", "e", "l", "i", "n", "e", "-", "l", "o", "g", "-">>) /\ EndsWith(filename, <<".", "j", "s", "o", "n">>)

\* POST /pipeline-logs/:filename/process up to the end of step 3 (lines 504-586)
processOutcome(filename, fs, id, now) ==
  IF ~ValidLogFilename(filename)
  THEN Response("process", 400, "Invalid filename")
  ELSE IF filename \notin DOMAIN PipelineLogFiles
  THEN Response("process", 404, "File not found")
  ELSE IF PipelineLogFiles[filename].k = "invalid-json"
  THEN Response("process", 500, "Internal server error")
  ELSE analysisSteps("process", PipelineLogFiles[filename],
                     Or(Or(PipelineLogFiles[filename].pipeline,
                           PipelineLogFiles[filename].pipelineName),
                        Str(ReplaceFirst(filename, <<".", "j", "s", "o", "n">>))),
                     Or(PipelineLogFiles[filename].timestamp, Timestamp(now, 0)),
                     fs, id, now)

\* steps 4 and 5 of the process route (lines 588-611): a failed store is
\* answered 500
processAnswer(outcome, stored, history) ==
  IF outcome.analysis = None THEN outcome
  ELSE IF stored.threw
  THEN [ Response("process", 500, "Storage failed") EXCEPT
           !.pipelineName = outcome.pipelineName, !.parsed = TRUE, !.vectorValid = TRUE ]
  ELSE [ outcome EXCEPT !.body = formatDriftAnalysis(outcome.analysis, history) ]

\* GET /pipeline-logs/:filename (lines 456-498)
pipelineLogAnswer(filename) ==
  IF ~ValidLogFilename(filename)
  THEN Response("pipeline-log", 400, "Invalid filename")
  ELSE IF filename \notin DOMAIN PipelineLogFiles
  THEN Response("pipeline-log", 404, "File not found")
  ELSE IF PipelineLogFiles[filename].k = "invalid-json"
  THEN Response("pipeline-log", 500, "Internal server error")
  ELSE [ Response("pipeline-log", 200, "") EXCEPT !.body = PipelineLogFiles[filename] ]

\* one turn of the loop of POST /train (lines 247-259): the vector of a log
\* that parses and validates, or an error for it
trainLoopStep(before, n, parsed) ==
  IF parsed.threw
  THEN [ before EXCEPT !.errors = Append(@, [log |-> n, error |-> parsed.error]) ]
  ELSE IF ~validateParsedLog(parsed.log)
  THEN [ before EXCEPT !.errors = Append(@, [log |-> n, error |-> "validation failed"]) ]
  ELSE [ before EXCEPT !.featureVectors = Append(@, extractFeaturesResult(parsed.log)) ]

\* the loop of POST /train (lines 243-260) over the first n logs
RECURSIVE trainLoop(_, _, _)
trainLoop(baselineLogs, n, now) ==
  IF n = 0 THEN [featureVectors |-> <<>>, errors |-> <<>>]
  ELSE trainLoopStep(trainLoop(baselineLogs, n - 1, now), n,
                     parseLogResult(baselineLogs[n], now))

\* trainBaselineModel reads nothing but its arguments: its results on the
\* vector lists the loop can hand it, computed once
TrainBaselineModelResults ==
  { [ featureVectors |-> featureVectors, pipelineName |-> pipelineName,
      result |-> trainBaselineModel(featureVectors, pipelineName) ] :
      featureVectors \in { trainLoop(batch, Len(batch), now).featureVectors :
                             batch \in TrainBatches, now \in Clock },
      pipelineName \in { Str(<<"d", "e", "f", "a", "u", "l", "t">>), Str(<<"w", "e", "b">>) } }

trainBaselineModelResult(featureVectors, pipelineName) ==
  (CHOOSE e \in TrainBaselineModelResults :
     e.featureVectors = featureVectors /\ e.pipelineName = pipelineName).result

\* the number of vectors of the list that validateFeatures accepts
ValidCount(featureVectors) ==
  Cardinality({i \in 1..Len(featureVectors) : validateFeatures(featureVectors[i])})

\* the least number of vectors POST /train goes on to train with
MIN_TRAIN_VECTORS == 2

\* what the route answers after the loop, with what the loop found
looped(loop, status, error) ==
  [ Response("train", status, error) EXCEPT
      !.listed = TRUE, !.vectors = Len(loop.featureVectors),
      !.validVectors = ValidCount(loop.featureVectors) ]

\* the end of POST /train (lines 293-320): the model saved and the 200 answer,
\* or 500 when saveModel threw
saveStep(body, loop, trained, saved, fs) ==
  IF saved.threw
  THEN [resp |-> looped(loop, 500, "Model save failed"), fs |-> fs]
  ELSE [ resp |-> [ looped(loop, 200, "") EXCEPT
                      !.errors = loop.errors,
                      !.body = [ k |-> "trained",
                                 modelName |-> Or(body.modelName, Str(<<"b", "a", "s", "e", "l", "i", "n", "e", "-", "m", "o", "d", "e", "l">>)),
                                 baselineRunCount |-> trained.model.baselineRunCount ] ],
         fs |-> saved.fs ]

\* training (lines 279-291): 500 when trainBaselineModel threw
trainStep(body, loop, trained, fs, dirExists) ==
  IF trained.threw
  THEN [resp |-> looped(loop, 500, "Training failed"), fs |-> fs]
  ELSE saveStep(body, loop, trained,
                saveModel(trained.model,
                          IF Truthy(body.modelName)
                          THEN NamedModelPath(ToStr(body.modelName))
                          ELSE DEFAULT_MODEL_PATH,
                          fs, dirExists),
                fs)

\* the gates after the loop (lines 262-277): no vector, or fewer than two
gateStep(body, loop, fs, dirExists) ==
  IF Len(loop.featureVectors) = 0
  THEN [resp |-> [looped(loop, 400, "Training failed") EXCEPT !.errors = loop.errors],
        fs |-> fs]
  ELSE IF Len(loop.featureVectors) < MIN_TRAIN_VECTORS
  THEN [resp |-> [looped(loop, 400, "Training failed") EXCEPT !.errors = loop.errors],
        fs |-> fs]
  ELSE trainStep(body, loop,
                 trainBaselineModelResult(loop.featureVectors,
                                          Or(body.modelName, Str(<<"d", "e", "f", "a", "u", "l", "t">>))),
                 fs, dirExists)

\* POST /train (lines 221-328): the answer and the file system after it
trainRoute(body, fs, dirExists, now) ==
  IF body.k # "object" \/ ~Truthy(body.baselineLogs)
  THEN [resp |-> Response("train", 400, "Invalid request"), fs |-> fs]
  ELSE IF body.baselineLogs.k # "array" \/ Len(body.baselineLogs.items) = 0
  THEN [resp |-> Response("train", 400, "Invalid request"), fs |-> fs]
  ELSE gateStep(body,
                trainLoop(body.baselineLogs.items, Len(body.baselineLogs.items), now),
                fs, dirExists)

\* parseInt(text, 10): the leading decimal digits, NaN when there are none
RECURSIVE LeadingDigits(_)
LeadingDigits(s) ==
  IF s = <<>> \/ DigitValue(Head(s)) < 0 THEN <<>>
  ELSE << Head(s) >> \o LeadingDigits(Tail(s))

\* an integer as a JS number of the route (not in thousandths)
parseInt(x) ==
  IF LeadingDigits(TrimStart(ToStr(x))) = <<>> THEN NaN
  ELSE Fin(DigitsValue(LeadingDigits(TrimStart(ToStr(x)))))

\* the limit GET /history uses when the query names none
DEFAULT_HISTORY_LIMIT == 100

\* the limit of GET /history (lines 164-173): a number, or None when rejected
historyLimit(queryLimit) ==
  LET limit == IF Truthy(queryLimit) THEN parseInt(queryLimit) ELSE Fin(DEFAULT_HISTORY_LIMIT)
  IN IF limit.k # "fin" \/ limit.v < 1 \/ limit.v > MAX_QUERY_LIMIT THEN None ELSE limit

\* GET /history (lines 160-215) given the list the store returned
historyAnswer(history) ==
  [ Response("history", 200, "") EXCEPT
      !.body = [ k |-> "history",
                 history |-> [i \in 1..Len(history) |-> formatDriftAnalysis(history[i], history)] ] ]

(***************************************************************************)
(* report/reportGenerator.js: generatePipelineComparison                   *)
(***************************************************************************)
\* the order of the characters under the root collation that localeCompare
\* uses: blank and punctuation, digits, letters; the case of a letter counts
\* only between names that are otherwise alike, lower case first
COLLATION_ORDER == <<" ", "_", "-", "0", "1", "2", "3", "4", "5", "6", "7", "8", "9", "a", "b", "c", "d", "e", "f", "g", "h", "i", "j", "k", "l", "m", "n", "o", "p", "q", "r", "s", "t", "u", "v", "w", "x", "y", "z">>

CollationWeight(c) == CHOOSE i \in 1..Len(COLLATION_ORDER) : COLLATION_ORDER[i] = Lower(c)

\* -1, 0 or 1 as a sorts before, with or after b, by the letters alone
RECURSIVE PrimaryCompare(_, _)
PrimaryCompare(a, b) ==
  IF a = <<>> THEN (IF b = <<>> THEN 0 ELSE -1)
  ELSE IF b = <<>> THEN 1
  ELSE IF CollationWeight(Head(a)) < CollationWeight(Head(b)) THEN -1
  ELSE IF CollationWeight(Head(a)) > CollationWeight(Head(b)) THEN 1
  ELSE PrimaryCompare(Tail(a), Tail(b))

\* the same between two names of the same letters, by the first difference of case
RECURSIVE CaseCompare(_, _)
CaseCompare(a, b) ==
  IF a = <<>> \/ b = <<>> THEN 0
  ELSE IF Head(a) = Head(b) THEN CaseCompare(Tail(a), Tail(b))
  ELSE IF Head(a) \in UpperCase THEN 1 ELSE -1

\* a.localeCompare(b)
localeCompare(a, b) ==
  IF PrimaryCompare(a, b) # 0 THEN PrimaryCompare(a, b) ELSE CaseCompare(a, b)

\* the entry put in its place in a list sorted by name; an entry that compares
\* equal goes after those already there (Array.prototype.sort is stable)
RECURSIVE InsertByName(_, _)
InsertByName(sorted, entry) ==
  IF sorted = <<>> THEN << entry >>
  ELSE IF localeCompare(sorted[Len(sorted)].name, entry.name) <= 0
  THEN Append(sorted, entry)
  ELSE Append(InsertByName(SubSeq(sorted, 1, Len(sorted) - 1), entry), sorted[Len(sorted)])

\* list.sort((a, b) => a.name.localeCompare(b.name))
RECURSIVE SortByName(_)
SortByName(entries) ==
  IF entries = <<>> THEN <<>>
  ELSE InsertByName(SortByName(SubSeq(entries, 1, Len(entries) - 1)), entries[Len(entries)])

\* steps.map(s => s.name)
StepNames(steps) == [i \in 1..Len(steps) |-> steps[i].name]

\* the names of the baseline alone
baselineNamesOnly(baselineSteps, currentSteps) == Dedupe(StepNames(baselineSteps))

\* new Set([...baseline names, ...current names]), in insertion order
allStepNames(baselineSteps, currentSteps) ==
  Dedupe(StepNames(baselineSteps) \o StepNames(currentSteps))

\* map.has(name) and map.get(name) of the Map filled by steps.forEach(step =>
\* map.set(step.name, step)): a later step of the same name replaces an earlier
MapHas(steps, name) == \E i \in 1..Len(steps) : steps[i].name = name

MapGet(steps, name) ==
  steps[CHOOSE i \in 1..Len(steps) :
          /\ steps[i].name = name
          /\ \A j \in (i + 1)..Len(steps) : steps[j].name # name]

\* the text of a list of strings between the brackets of JSON.stringify
RECURSIVE JoinQuoted(_)
JoinQuoted(list) ==
  IF list = <<>> THEN <<>>
  ELSE IF Len(list) = 1 THEN << "'" >> \o list[1] \o << "'" >>
  ELSE JoinQuoted(SubSeq(list, 1, Len(list) - 1))
         \o << ",", "'" >> \o list[Len(list)] \o << "'" >>

\* JSON.stringify(step.permissions || []), the double quote written '
PermissionsJson(permissions) == << "[" >> \o JoinQuoted(permissions) \o << "]" >>

\* a comparison of the permissions alone
permissionsModifiedOnly(baselineStep, currentStep) ==
  PermissionsJson(baselineStep.permissions) # PermissionsJson(currentStep.permissions)

\* isModified of a step present on both sides (lines 145-151 and 172-178)
isModified(baselineStep, currentStep) ==
  \/ PermissionsJson(baselineStep.permissions) # PermissionsJson(currentStep.permissions)
  \/ baselineStep.security # currentStep.security
  \/ baselineStep.secrets # currentStep.secrets
  \/ baselineStep.approval # currentStep.approval

\* the entries (none or one) a name adds to baselinePipeline (lines 142-166)
baselineEntry(baselineSteps, currentSteps, stepName) ==
  IF ~MapHas(baselineSteps, stepName) THEN <<>>
  ELSE << [ name |-> stepName,
            status |-> IF MapHas(currentSteps, stepName) THEN "unchanged" ELSE "removed",
            security |-> MapGet(baselineSteps, stepName).security ] >>

\* the entries (none or one) a name adds to currentPipeline (lines 169-194)
currentEntry(baselineSteps, currentSteps, stepName) ==
  IF ~MapHas(currentSteps, stepName) THEN <<>>
  ELSE << [ name |-> stepName,
            status |-> IF ~MapHas(baselineSteps, stepName) THEN "added"
                       ELSE IF isModified(MapGet(baselineSteps, stepName),
                                          MapGet(currentSteps, stepName))
                       THEN "modified" ELSE "unchanged",
            security |-> MapGet(currentSteps, stepName).security ] >>

\* baselinePipeline and currentPipeline after the forEach over the first n names
RECURSIVE BaselineUpTo(_, _, _, _)
BaselineUpTo(names, n, baselineSteps, currentSteps) ==
  IF n = 0 THEN <<>>
  ELSE BaselineUpTo(names, n - 1, baselineSteps, currentSteps)
         \o baselineEntry(baselineSteps, currentSteps, names[n])

RECURSIVE CurrentUpTo(_, _, _, _)
CurrentUpTo(names, n, baselineSteps, currentSteps) ==
  IF n = 0 THEN <<>>
  ELSE CurrentUpTo(names, n - 1, baselineSteps, currentSteps)
         \o currentEntry(baselineSteps, currentSteps, names[n])

\* the comparison once the names are collected
comparisonOver(names, baselineSteps, currentSteps) ==
  [ baseline |-> SortByName(BaselineUpTo(names, Len(names), baselineSteps, currentSteps)),
    current |-> SortByName(CurrentUpTo(names, Len(names), baselineSteps, currentSteps)) ]

\* generatePipelineComparison(baselineSteps, currentSteps)
generatePipelineComparison(baselineSteps, currentSteps) ==
  comparisonOver(allStepNames(baselineSteps, currentSteps), baselineSteps, currentSteps)

(***************************************************************************)
(* api/driftRoutes.js: GET /pipelines/:pipelineName                        *)
(***************************************************************************)
\* the limit GET /pipelines/:pipelineName passes to getAnalysesByPipeline
PIPELINE_QUERY_LIMIT == 1000

\* lines 357-367: the comparison of the steps of the two analyses
pipelineComparison(baselineAnalysis, currentAnalysis) ==
  generatePipelineComparison(baselineAnalysis.parsedSteps, currentAnalysis.parsedSteps)

\* the body of the 200 answer (lines 371-377)
comparisonBody(comparison, baselineAnalysis, currentAnalysis) ==
  [ k |-> "comparison",
    baseline |-> comparison.baseline,
    current |-> comparison.current,
    baselineTimestamp |-> baselineAnalysis.timestamp,
    currentTimestamp |-> currentAnalysis.timestamp ]

\* GET /pipelines/:pipelineName (lines 334-386) given the list the store
\* returned: the last of the list is the baseline, the first the current
pipelineAnswer(pipelineName, analyses) ==
  IF Len(analyses) = 0
  THEN [ Response("pipelines", 404, "Not found") EXCEPT !.pipelineName = pipelineName ]
  ELSE [ Response("pipelines", 200, "") EXCEPT
           !.pipelineName = pipelineName,
           !.body = comparisonBody(pipelineComparison(analyses[Len(analyses)], analyses[1]),
                                   analyses[Len(analyses)], analyses[1]) ]

(***************************************************************************)
(* State                                                                   *)
(***************************************************************************)
VARIABLES
  nodeEnv,         \* process.env.NODE_ENV
  dbConnected,     \* connectDatabase succeeded: getDatabase does not throw
  uniqueIndex,     \* createIndexes created the unique index on id
  modelDirExists,  \* data/models exists (the repository ships it, empty)
  files,           \* the model files, by name
  store,           \* the analyses collection, in insertion order
  issued,          \* the number of ids randomUUID has returned for analyses
  resp,            \* the answer to the last HTTP request
  calls,           \* the storeAnalysis calls in progress
  writer,          \* a saveModel in progress
  reader,          \* a loadModel in progress
  input,           \* the vector and model handed to detectDrift
  result,          \* what detectDrift returned
  prior,           \* what the detectDrift call before that one returned
  req,             \* the last HTTP request
  ml               \* a detectDrift call on the ML service in progress

vars == << nodeEnv, dbConnected, uniqueIndex, modelDirExists, files, store, issued,
           resp, calls, writer, reader, input, result, prior, req, ml >>

config == << nodeEnv, dbConnected, uniqueIndex, modelDirExists >>
others == << calls, writer, reader, input, result, prior, ml >>

Idle == [pc |-> "idle"]

(***************************************************************************)
(* The server: one action per route                                        *)
(***************************************************************************)
Init ==
  /\ nodeEnv \in {"production", "development"}
  /\ dbConnected \in BOOLEAN
  /\ uniqueIndex = dbConnected
  /\ modelDirExists = TRUE
  /\ files = [p \in ModelPaths |-> NoFile]
  /\ store = InitialStore
  /\ issued = 0
  /\ resp = NoResponse
  /\ calls = <<>>
  /\ writer = Idle
  /\ reader = Idle
  /\ input = None
  /\ result = None
  /\ prior = None
  /\ req = NoRequest
  /\ ml = Idle

\* POST /analyze
Analyze ==
  \E body \in AnalyzeBodies, now \in Clock :
    \E outcome \in { analyzeOutcome(body, nodeEnv, files, Uuid(issued + 1), now) } :
      \E stored \in { persistStep(outcome, store, dbConnected, uniqueIndex) } :
        /\ outcome.analysis # None => issued < MaxIds
        /\ store' = stored.collection
        /\ issued' = IF outcome.analysis # None THEN issued + 1 ELSE issued
        /\ \E history \in recentHistory(stored.collection, dbConnected,
                                        outcome.pipelineName) :
             resp' = analyzeAnswer(outcome, history)
        /\ req' = [route |-> "analyze", body |-> body]
        /\ UNCHANGED << config, files, others >>

\* POST /pipeline-logs/:filename/process
Process ==
  \E filename \in FilenameInputs, now \in Clock :
    \E outcome \in { processOutcome(filename, files, Uuid(issued + 1), now) } :
      \E stored \in { persistStep(outcome, store, dbConnected, uniqueIndex) } :
        /\ outcome.analysis # None => issued < MaxIds
        /\ store' = stored.collection
        /\ issued' = IF outcome.analysis # None THEN issued + 1 ELSE issued
        /\ \E history \in recentHistory(stored.collection, dbConnected,
                                        outcome.pipelineName) :
             resp' = processAnswer(outcome, stored, history)
        /\ req' = [route |-> "process", filename |-> filename]
        /\ UNCHANGED << config, files, others >>

\* POST /train
Train ==
  \E body \in TrainBodies, now \in Clock :
    \E answer \in { trainRoute(body, files, modelDirExists, now) } :
      /\ resp' = answer.resp
      /\ files' = answer.fs
      /\ req' = [route |-> "train", body |-> body]
      /\ UNCHANGED << config, store, issued, others >>

\* GET /history
GetHistory ==
  \E pipeline \in { Undefined, Str(<<"w", "e", "b">>) }, queryLimit \in LimitInputs,
     since \in SinceInputs :
    /\ IF historyLimit(queryLimit) = None
       THEN resp' = Response("history", 400, "Invalid request")
       ELSE IF ~dbConnected
       THEN resp' = Response("history", 500, "Internal server error")
       ELSE \E history \in getAnalysisHistory(store, pipeline,
                                              historyLimit(queryLimit).v, since) :
              resp' = historyAnswer(history)
    /\ req' = [route |-> "history", pipeline |-> pipeline, limit |-> queryLimit,
               since |-> since]
    /\ UNCHANGED << config, files, store, issued, others >>

\* GET /pipelines/:pipelineName
GetPipeline ==
  \E pipelineName \in { <<"w", "e", "b">>, <<"d", "b">> } :
    /\ IF ~dbConnected
       THEN resp' = Response("pipelines", 500, "Internal server error")
       ELSE \E analyses \in getAnalysesByPipeline(store, Str(pipelineName),
                                                  PIPELINE_QUERY_LIMIT) :
              resp' = pipelineAnswer(Str(pipelineName), analyses)
    /\ req' = [route |-> "pipelines", pipelineName |-> Str(pipelineName)]
    /\ UNCHANGED << config, files, store, issued, others >>

\* GET /pipeline-logs/:filename
GetPipelineLog ==
  \E filename \in FilenameInputs :
    /\ resp' = pipelineLogAnswer(filename)
    /\ req' = [route |-> "pipeline-log", filename |-> filename]
    /\ UNCHANGED << config, files, store, issued, others >>

Next == Analyze \/ Process \/ Train \/ GetHistory \/ GetPipeline \/ GetPipelineLog

Spec == Init /\ [][Next]_vars

(***************************************************************************)
(* Properties of the routes                                                *)
(***************************************************************************)
\* the analysis is one whose pipelineName contains test, sample, mock or dummy
HasTestName(analysis) ==
  analysis.pipelineName.k = "string" /\ IsTestName(analysis.pipelineName.s)

C2_AnalyzeSucceedsOnceTrained ==
  ( /\ resp.route = "analyze"
    /\ resp.parsed
    /\ resp.vectorValid
    /\ files[DEFAULT_MODEL_PATH].exists )
  => (resp.status = 200 /\ resp.analysis # None)

\* C3: a POST /analyze answered with a 4xx or 5xx status leaves the store as
\* it was before the request
C3_FailedAnalyzeStoresNothing ==
  [][ (resp'.route = "analyze" /\ resp'.status >= 400) => store' = store ]_vars

\* C3 (case reached): a POST /analyze got as far as drift detection, was
\* answered 500, and the store holds what it held at the start
C3_DetectionFailureAnswered ==
  /\ resp.route = "analyze"
  /\ resp.status = 500
  /\ resp.error = "Drift detection failed"
  /\ store = InitialStore

\* C4: with the database not connected, a POST /analyze of a valid log against
\* a trained default model is still answered 200, and the body carries the id,
\* pipelineName, driftScore, riskLevel and issues of the analysis computed
C4_StoreFailureStillAnswered ==
  ( /\ resp.route = "analyze"
    /\ ~dbConnected
    /\ resp.parsed
    /\ resp.vectorValid
    /\ files[DEFAULT_MODEL_PATH].exists )
  => ( /\ resp.status = 200
       /\ resp.analysis # None
       /\ resp.body # None
       /\ resp.body.id = resp.analysis.id
       /\ resp.body.pipelineName = resp.analysis.pipelineName
       /\ resp.body.driftScore = resp.analysis.driftScore
       /\ resp.body.riskLevel = resp.analysis.riskLevel
       /\ resp.body.issues = resp.analysis.issues )

\* C5: a POST /train in which fewer than 2 of the baselineLogs yield a valid
\* feature vector is answered 400 together with the per-log errors
C5_TooFewValidVectorsRejected ==
  (resp.route = "train" /\ resp.listed /\ resp.validVectors < MIN_TRAIN_VECTORS)
  => resp.status = 400

\* the analysis is in the collection with the same id, pipelineName,
\* driftScore, riskLevel, timestamp and issues
Kept(analysis, collection) ==
  \E j \in 1..Len(collection) :
    /\ collection[j].id = analysis.id
    /\ collection[j].pipelineName = analysis.pipelineName
    /\ collection[j].driftScore = analysis.driftScore
    /\ collection[j].riskLevel = analysis.riskLevel
    /\ collection[j].timestamp = analysis.timestamp
    /\ collection[j].issues = analysis.issues

C19_TestNameRefusedInProduction ==
  [][ ( /\ nodeEnv = "production"
        /\ resp'.route = "analyze"
        /\ resp'.pipelineName.k = "string"
        /\ IsTestName(resp'.pipelineName.s) )
      => (resp'.status = 400 /\ ~resp'.parsed /\ resp'.analysis = None /\ store' = store)
    ]_vars

\* C19 (case reached): in production a POST /analyze without pipeline, whose
\* log has steps and names itself Sample-run under pipelineName, was answered
\* 400 unparsed, and the store holds what it held at the start
C19_SampleRunRefused ==
  /\ nodeEnv = "production"
  /\ resp.route = "analyze"
  /\ resp.pipelineName = Str(<<"S", "a", "m", "p", "l", "e", "-", "r", "u", "n">>)
  /\ resp.status = 400
  /\ ~resp.parsed
  /\ store = InitialStore
  /\ store # <<>>

\* the limit of the query is written as a whole number from 1 to 1000
LimitInRange(limit) ==
  /\ limit.k = "string"
  /\ limit.s # <<>>
  /\ \A i \in 1..Len(limit.s) : DigitValue(limit.s[i]) >= 0
  /\ DigitsValue(limit.s) >= 1
  /\ DigitsValue(limit.s) <= MAX_QUERY_LIMIT

\* C21: GET /history answers 400 when limit is not an integer in [1,1000];
\* otherwise it returns at most limit analyses (100 when limit is absent),
\* never more than 1000, and when since is given only analyses whose timestamp
\* is not before since
C21_HistoryLimitAndSince ==
  req.route = "history"
  => IF req.limit # Undefined /\ ~LimitInRange(req.limit)
     THEN resp.status = 400
     ELSE dbConnected
          => /\ resp.status = 200
             /\ Len(resp.body.history)
                  <= (IF req.limit = Undefined THEN DEFAULT_HISTORY_LIMIT
                      ELSE DigitsValue(req.limit.s))
             /\ Len(resp.body.history) <= MAX_QUERY_LIMIT
             /\ Truthy(req.since)
                  => \A i \in 1..Len(resp.body.history) :
                       Instant(resp.body.history[i].timestamp) >= Instant(req.since)

\* a request body without pipeline and timestamp whose log is an object with
\* neither pipeline nor pipelineName
Unnamed(body) ==
  /\ body.k = "object"
  /\ body.pipeline.k = "undefined"
  /\ body.timestamp.k = "undefined"
  /\ body.log.k = "object"
  /\ body.log.pipeline.k = "undefined"
  /\ body.log.pipelineName.k = "undefined"

\* the names and the timestamps the normalizer gives a log, at any time
NormalizerNames(log) == { parseUniversalLog(log, now).log.pipeline : now \in Clock }

NormalizerTimestamps(log) == { parseUniversalLog(log, now).log.timestamp : now \in Clock }

\* C29: a POST /analyze without a pipeline field, for a log with neither
\* pipeline nor pipelineName, analyses the log under the name the normalizer
\* extracts from it, and the analysis it stores has that name and the
\* normalizer's timestamp
C29_AnalyzedUnderNormalizerName ==
  (req.route = "analyze" /\ Unnamed(req.body) /\ resp.parsed) =>
    /\ resp.pipelineName \in NormalizerNames(req.body.log)
    /\ resp.analysis # None =>
         /\ resp.analysis.pipelineName \in NormalizerNames(req.body.log)
         /\ resp.analysis.timestamp \in NormalizerTimestamps(req.body.log)
         /\ \E i \in DOMAIN store : store[i].id = resp.analysis.id

(***************************************************************************)
(* detectDrift on its own: a vector and a model in, a result out           *)
(***************************************************************************)
\* the vectors of the two sample logs
VectorA == extractFeatures(parseLog(LogA, 0).log)
VectorB == extractFeatures(parseLog(LogB, 0).log)

\* every feature far from any baseline
VectorFar == [i \in 1..getFeatureCount |-> Fin(100000)]

\* a vector validateFeatures rejects
VectorNaN == [i \in 1..getFeatureCount |-> IF i = 8 THEN NaN ELSE Fin(0)]

\* the model trained from the two sample logs
BaselineModel == trainBaselineModel(<< VectorA, VectorB >>, Str(<<"d", "e", "f", "a", "u", "l", "t">>)).model

\* the model with the statistics of one feature replaced, as a model file
\* edited by hand or written by another tool may hold them
ModelWith(featureName, mean, stdDev) ==
  [ BaselineModel EXCEPT !.features[featureName].mean = mean,
                         !.features[featureName].stdDev = stdDev ]

MeanInputs == { Fin(0), Fin(2000), NaN, PosInf, NegInf }
StdDevInputs == { Fin(0), Fin(50), Fin(100), Fin(1000), Fin(-100), NaN, PosInf }
FeatureInputs == { "securityScanCount", "avgSecurityStepOrder", "normalizedAvgStepOrder" }

\* the vector whose every component is the model's mean for the feature
MeanVector(model) ==
  [i \in 1..getFeatureCount |-> model.features[getFeatureNames[i]].mean]

\* the baseline with a stdDev of 1 for every feature, and the vector that lies
\* z thousandths of a deviation above (or below) every mean of it
UnitModel ==
  [ BaselineModel EXCEPT
      !.features = [f \in FeatureNameSet |-> [@[f] EXCEPT !.stdDev = Fin(1000)]] ]

Shifted(z) ==
  [i \in 1..getFeatureCount |-> Fin(UnitModel.features[getFeatureNames[i]].mean.v + z)]

ShiftInputs == { -3000, -1500, 1, 1499, 1500, 1501, 2500, 2501, 3500, 3501 }

DetectInputs ==
  { [featureVector |-> v, model |-> ModelWith(f, m, s)] :
      v \in { VectorA, VectorB, VectorFar, VectorNaN },
      f \in FeatureInputs, m \in MeanInputs, s \in StdDevInputs }
  \cup { [featureVector |-> MeanVector(ModelWith(f, m, s)), model |-> ModelWith(f, m, s)] :
           f \in FeatureInputs \cup {"secretsUsageCount"}, m \in MeanInputs,
           s \in StdDevInputs }
  \cup { [featureVector |-> Shifted(z), model |-> UnitModel] : z \in ShiftInputs }

InitDetect ==
  /\ nodeEnv = "development"
  /\ dbConnected = FALSE
  /\ uniqueIndex = FALSE
  /\ modelDirExists = TRUE
  /\ files = [p \in ModelPaths |-> NoFile]
  /\ store = <<>>
  /\ issued = 0
  /\ resp = NoResponse
  /\ calls = <<>>
  /\ writer = Idle
  /\ reader = Idle
  /\ input \in DetectInputs
  /\ result = None
  /\ prior = None
  /\ req = NoRequest
  /\ ml = Idle

\* detectDrift(featureVector, { model }); the result of the call before is
\* kept beside the new one
Detect ==
  \E now \in Clock :
    /\ issued < MaxIds
    /\ result' = detectDrift(input.featureVector,
                             [ model |-> input.model, modelPath |-> Undefined,
                               pipelineName |-> Undefined ],
                             files, Uuid(issued + 1), now)
    /\ prior' = result
    /\ issued' = issued + 1
    /\ UNCHANGED << config, files, store, resp, calls, writer, reader, input, req, ml >>

NextDetect == Detect

SpecDetect == InitDetect /\ [][NextDetect]_vars

\* C10: for every valid 17-feature vector and every model validateModel
\* accepts, detectDrift returns, and its driftScore is between 0 and 100
C10_DriftScoreWithinRange ==
  (result # None /\ validateFeatures(input.featureVector) /\ validateModel(input.model))
  => ( /\ ~result.threw
       /\ result.analysis.driftScore >= 0
       /\ result.analysis.driftScore <= SCORE_CAP )

\* C10 (case reached): a valid vector far from the baseline, against a model
\* validateModel accepts, got the score 100
C10_ScoreCapReached ==
  /\ result # None
  /\ validateFeatures(input.featureVector)
  /\ validateModel(input.model)
  /\ ~result.threw
  /\ result.analysis.driftScore = SCORE_CAP
  /\ input.featureVector = VectorFar

\* C11: the riskLevel of every analysis detectDrift returns is fixed by its
\* driftScore: low up to 30, medium above 30 up to 50, high above 50 up to 70,
\* critical above 70
C11_RiskLevelFromScoreAlone ==
  (result # None /\ ~result.threw) =>
    result.analysis.riskLevel =
      ( CASE result.analysis.driftScore <= 3000 -> "low"
          [] result.analysis.driftScore > 3000 /\ result.analysis.driftScore <= 5000 -> "medium"
          [] result.analysis.driftScore > 5000 /\ result.analysis.driftScore <= 7000 -> "high"
          [] OTHER -> "critical" )

\* C11 (case reached): a score of exactly 50 was returned, with the level medium
C11_ScoreOnMediumBoundary ==
  /\ result # None
  /\ ~result.threw
  /\ result.analysis.driftScore = 5000
  /\ result.analysis.riskLevel = "medium"

C13_SameInputsSameVerdict ==
  (result # None /\ prior # None) =>
    /\ result.threw = prior.threw
    /\ result.error = prior.error
    /\ ~result.threw =>
         /\ result.analysis.driftScore = prior.analysis.driftScore
         /\ result.analysis.riskLevel = prior.analysis.riskLevel
         /\ result.analysis.explanations = prior.analysis.explanations
         /\ result.analysis.issues = prior.analysis.issues

\* C13 (case reached): two calls on the same inputs, at different times and
\* with different ids, both reporting issues
C13_TwoCallsApart ==
  /\ result # None
  /\ prior # None
  /\ ~result.threw
  /\ ~prior.threw
  /\ result.analysis.id # prior.analysis.id
  /\ result.analysis.timestamp # prior.analysis.timestamp
  /\ result.analysis.issues # <<>>
  /\ result.analysis.explanations # <<>>

\* the issues and the explanations of the returned analysis that are about
\* one feature
IssuesAbout(f) ==
  { i \in DOMAIN result.analysis.issues : result.analysis.issues[i].step = f }

ExplanationsAbout(f) ==
  { i \in DOMAIN result.analysis.explanations :
      result.analysis.explanations[i].feature = f }

\* the direction the mapping table names for a feature
DecreaseMapped ==
  { "securityScanCount", "securityStepCount", "securityStepRatio",
    "approvalStepCount", "securityBeforeDeploy" }

IncreaseMapped ==
  { "adminPermissionCount", "permissionEscalation", "secretsWithWriteCount",
    "normalizedFirstSecurityStep" }

EitherMapped == { "secretsUsageCount" }

SignMatchesTable(f, z) ==
  \/ f \in DecreaseMapped /\ ZNegative(z)
  \/ f \in IncreaseMapped /\ ZPositive(z)
  \/ f \in EitherMapped

TierSeverity(z) ==
  CASE ZAbsGeq(z, Z_MAJOR) -> "critical"
    [] ZAbsGeq(z, Z_MODERATE) -> "high"
    [] ZAbsGeq(z, Z_MINOR) -> "medium"
    [] ZAbsGeq(z, Z_NORMAL) -> "low"
    [] OTHER -> "none"

\* C26: an issue of a feature other than permissionEscalation has the severity
\* of the tier of |z|: low from 1.5, medium from 2.5, high from 3.5, critical
\* from 4.5; an issue of permissionEscalation has the severity high
C26_SeverityFromTier ==
  (result # None /\ ~result.threw) =>
    \A i \in DOMAIN result.analysis.issues :
      result.analysis.issues[i].severity =
        ( IF result.analysis.issues[i].step = "permissionEscalation" THEN "high"
          ELSE TierSeverity(ZScoresOf(input.featureVector, input.model)
                              [result.analysis.issues[i].step]) )

(***************************************************************************)
(* storeAnalysis and getAnalysisHistory step by step: each await of        *)
(* storeAnalysis is a point where another call may run                     *)
(***************************************************************************)
\* the timestamps callers send: 01:00Z, and 02:00+02:00, which is an hour
\* earlier and sorts later as a string
StoreTimestamps == { Timestamp(1, 0), Timestamp(2, 2) }

StoreInputs ==
  { [ k |-> "analysis", id |-> Uuid(n), pipelineName |-> Str(<<"w", "e", "b">>),
      driftScore |-> 1250, riskLevel |-> calculateRiskLevel(1250), timestamp |-> t,
      issues |-> <<>>, explanations |-> <<>>, parsedSteps |-> <<>> ] :
      n \in 1..MaxIds, t \in StoreTimestamps }

InitStore ==
  /\ nodeEnv = "development"
  /\ dbConnected = TRUE
  /\ uniqueIndex \in BOOLEAN
  /\ modelDirExists = TRUE
  /\ files = [p \in ModelPaths |-> NoFile]
  /\ store = <<>>
  /\ issued = 0
  /\ resp = NoResponse
  /\ calls = <<>>
  /\ writer = Idle
  /\ reader = Idle
  /\ input = None
  /\ result = None
  /\ prior = None
  /\ req = NoRequest
  /\ ml = Idle

storeFrame == << config, files, issued, resp, writer, reader, input, prior, req, ml >>

\* storeAnalysis(analysis) is called: the id check passes, getCollection returns
CallStore ==
  \E analysis \in StoreInputs :
    /\ Len(calls) < MaxCalls
    /\ calls' = Append(calls, [analysis |-> analysis, pc |-> "findOne"])
    /\ UNCHANGED << storeFrame, store, result >>

\* const existing = await collection.findOne({ id: analysis.id })
FindOne ==
  \E c \in 1..Len(calls) :
    /\ calls[c].pc = "findOne"
    /\ calls' = [calls EXCEPT ![c].pc =
                   IF findOne(store, calls[c].analysis.id) # None
                   THEN "updateOne" ELSE "insertOne"]
    /\ UNCHANGED << storeFrame, store, result >>

\* await collection.updateOne({ id: analysis.id }, { $set: analysis })
UpdateOne ==
  \E c \in 1..Len(calls) :
    /\ calls[c].pc = "updateOne"
    /\ store' = updateOne(store, calls[c].analysis)
    /\ calls' = [calls EXCEPT ![c].pc = "returned"]
    /\ UNCHANGED << storeFrame, result >>

\* await collection.insertOne(analysis); a duplicate key error is rethrown
InsertOne ==
  \E c \in 1..Len(calls) :
    /\ calls[c].pc = "insertOne"
    /\ store' = insertOne(store, calls[c].analysis, uniqueIndex).collection
    /\ calls' = [calls EXCEPT ![c].pc =
                   IF insertOne(store, calls[c].analysis, uniqueIndex).threw
                   THEN "threw" ELSE "returned"]
    /\ UNCHANGED << storeFrame, result >>

\* getAnalysisHistory({ pipeline: a.pipelineName }) after storeAnalysis(a)
\* returned, a being in the collection as stored
QueryHistory ==
  \E c \in 1..Len(calls) :
    /\ calls[c].pc = "returned"
    /\ \E i \in 1..Len(store) : store[i] = calls[c].analysis
    /\ \E history \in getAnalysisHistory(store, calls[c].analysis.pipelineName, 0, Undefined) :
         result' = [ k |-> "history", analysis |-> calls[c].analysis, history |-> history ]
    /\ UNCHANGED << storeFrame, store, calls >>

NextStore == CallStore \/ FindOne \/ UpdateOne \/ InsertOne \/ QueryHistory

SpecStore == InitStore /\ [][NextStore]_vars

\* C7: after any interleaving of storeAnalysis calls, two of them with the
\* same id included, the store holds at most one analysis per id and no call
\* has thrown, with or without the unique index
C7_OneAnalysisPerIdAndNoCallFails ==
  /\ \A i, j \in 1..Len(store) : store[i].id = store[j].id => i = j
  /\ \A c \in 1..Len(calls) : calls[c].pc # "threw"

\* b is later than a as an instant
LaterThan(b, a) == Instant(b.timestamp) > Instant(a.timestamp)

\* C8: the history returned after storeAnalysis(a) is ordered by timestamp
\* descending, and a is at its head exactly when no other analysis of the
\* pipeline has a later timestamp; analyses of one and the same instant may
\* come in either order, and each id is held once
C8_HistoryNewestFirst ==
  (result # None /\ \A i, j \in 1..Len(result.history) :
                      result.history[i].id = result.history[j].id => i = j) =>
    /\ \A i, j \in 1..Len(result.history) :
         i < j => ~LaterThan(result.history[j], result.history[i])
    /\ (\A i \in 1..Len(result.history) : ~LaterThan(result.history[i], result.analysis))
         => Instant(result.history[1].timestamp) = Instant(result.analysis.timestamp)
    /\ (result.history[1] = result.analysis)
         => (\A i \in 1..Len(result.history) :
               ~LaterThan(result.history[i], result.analysis))

(***************************************************************************)
(* saveModel and loadModel on the default model file, system call by       *)
(* system call: the writer may be the server or the train-baseline script, *)
(* the reader a detection in another process                               *)
(***************************************************************************)
\* the model on disk at the start and the models a training run may produce
PreviousModel == BaselineModel
RetrainedModel == trainBaselineModel(<< VectorB, VectorB >>, Str(<<"d", "e", "f", "a", "u", "l", "t">>)).model
WrittenModels == { PreviousModel, RetrainedModel }

InitFile ==
  /\ nodeEnv = "development"
  /\ dbConnected = FALSE
  /\ uniqueIndex = FALSE
  /\ modelDirExists = TRUE
  /\ files = [ p \in ModelPaths |->
                 IF p = DEFAULT_MODEL_PATH
                 THEN [exists |-> TRUE, text |-> JSONstringify(PreviousModel)]
                 ELSE NoFile ]
  /\ store = <<>>
  /\ issued = 0
  /\ resp = NoResponse
  /\ calls = <<>>
  /\ writer = Idle
  /\ reader = Idle
  /\ input = None
  /\ result = None
  /\ prior = None
  /\ req = NoRequest
  /\ ml = Idle

fileFrame == << config, store, issued, resp, calls, input, result, prior, req, ml >>

\* saveModel(model): the checks pass and JSON.stringify has run
StartSave ==
  \E model \in WrittenModels :
    /\ writer.pc \in {"idle", "saved", "failed"}
    /\ modelDirExists
    /\ writer' = [pc |-> "open", text |-> JSONstringify(model), written |-> 0]
    /\ UNCHANGED << fileFrame, files, reader >>

\* writeFileSync opens the file with flag 'w': created or truncated
OpenTruncate ==
  /\ writer.pc = "open"
  /\ files' = [files EXCEPT ![DEFAULT_MODEL_PATH] = [exists |-> TRUE, text |-> <<>>]]
  /\ writer' = [writer EXCEPT !.pc = "write"]
  /\ UNCHANGED << fileFrame, reader >>

\* writeFileSync writes until the whole text is out: one write call takes
\* some of what is left
WriteSome ==
  /\ writer.pc = "write"
  /\ \E n \in (writer.written + 1)..Len(writer.text) :
       /\ files' = [files EXCEPT ![DEFAULT_MODEL_PATH].text = SubSeq(writer.text, 1, n)]
       /\ writer' = [writer EXCEPT !.written = n,
                                   !.pc = IF n = Len(writer.text) THEN "saved" ELSE "write"]
  /\ UNCHANGED << fileFrame, reader >>

\* the write fails (disk full) or the writing process is stopped: saveModel
\* throws or never returns, and the file stays as it is
FailSave ==
  /\ writer.pc = "write"
  /\ writer' = [writer EXCEPT !.pc = "failed"]
  /\ UNCHANGED << fileFrame, files, reader >>

\* loadModel(): existsSync(filePath)
StartLoad ==
  /\ reader.pc \in {"idle", "loaded"}
  /\ reader' = IF existsSync(Str(DEFAULT_MODEL_PATH), files)
               THEN [pc |-> "read"]
               ELSE [ pc |-> "loaded",
                      outcome |-> [threw |-> TRUE, error |-> "Model file does not exist",
                                   model |-> None] ]
  /\ UNCHANGED << fileFrame, files, writer >>

\* readFileSync, JSON.parse and the features check
ReadAndParse ==
  /\ reader.pc = "read"
  /\ reader' = [pc |-> "loaded", outcome |-> parseModelText(files[DEFAULT_MODEL_PATH].text)]
  /\ UNCHANGED << fileFrame, files, writer >>

NextFile == StartSave \/ OpenTruncate \/ WriteSome \/ FailSave \/ StartLoad \/ ReadAndParse

SpecFile == InitFile /\ [][NextFile]_vars

\* C6: whatever the interleaving of a writer with a reader, a failed or
\* stopped writer included, the reader obtains a complete model, the previous
\* one or a new one, and never an empty, cut-off or mixed file
C6_ReaderSeesWholeModel ==
  reader.pc = "loaded" =>
    /\ ~reader.outcome.threw
    /\ \E model \in WrittenModels : JSONstringify(reader.outcome.model) = JSONstringify(model)

(***************************************************************************)
(* generatePipelineComparison on its own: two step lists in, the two sides *)
(* of the comparison out                                                   *)
(***************************************************************************)
\* a parsed step as normalizeStep leaves it
ParsedStep(name, permissions, security, secrets, approval) ==
  [ k |-> "step", name |-> name, type |-> <<"o", "t", "h", "e", "r">>, executionOrder |-> Fin(1000),
    permissions |-> permissions, security |-> security, secrets |-> secrets,
    approval |-> approval ]

\* steps that differ from one another in one respect each: the permissions,
\* their order, each of the three flags, the case of the name
DiffSteps ==
  { ParsedStep(<<"b", "u", "i", "l", "d">>, << <<"r", "e", "a", "d">> >>, FALSE, FALSE, FALSE),
    ParsedStep(<<"b", "u", "i", "l", "d">>, << <<"r", "e", "a", "d">>, <<"w", "r", "i", "t", "e">> >>, FALSE, FALSE, FALSE),
    ParsedStep(<<"b", "u", "i", "l", "d">>, << <<"w", "r", "i", "t", "e">>, <<"r", "e", "a", "d">> >>, FALSE, FALSE, FALSE),
    ParsedStep(<<"B", "u", "i", "l", "d">>, << <<"r", "e", "a", "d">> >>, FALSE, FALSE, FALSE),
    ParsedStep(<<"s", "c", "a", "n">>, <<>>, TRUE, FALSE, FALSE),
    ParsedStep(<<"s", "c", "a", "n">>, <<>>, FALSE, FALSE, FALSE),
    ParsedStep(<<"s", "c", "a", "n">>, <<>>, TRUE, TRUE, FALSE),
    ParsedStep(<<"s", "c", "a", "n">>, <<>>, TRUE, FALSE, TRUE),
    ParsedStep(<<"d", "e", "p", "l", "o", "y", "-", "1">>, << <<"w", "r", "i", "t", "e">> >>, FALSE, FALSE, FALSE) }

\* every list of at most two of them, and two pipelines of three steps
DiffLists ==
  { <<>> } \cup { << s >> : s \in DiffSteps } \cup { << s, t >> : s, t \in DiffSteps }
    \cup { << ParsedStep(<<"s", "c", "a", "n">>, <<>>, TRUE, FALSE, FALSE),
              ParsedStep(<<"d", "e", "p", "l", "o", "y", "-", "1">>, << <<"w", "r", "i", "t", "e">> >>, FALSE, FALSE, FALSE),
              ParsedStep(<<"b", "u", "i", "l", "d">>, << <<"r", "e", "a", "d">> >>, FALSE, FALSE, FALSE) >>,
           << ParsedStep(<<"d", "e", "p", "l", "o", "y", "-", "1">>, << <<"w", "r", "i", "t", "e">> >>, FALSE, FALSE, TRUE),
              ParsedStep(<<"B", "u", "i", "l", "d">>, << <<"r", "e", "a", "d">> >>, FALSE, FALSE, FALSE),
              ParsedStep(<<"a", "u", "d", "i", "t">>, <<>>, TRUE, FALSE, FALSE) >> }

InitDiff ==
  /\ nodeEnv = "development"
  /\ dbConnected = FALSE
  /\ uniqueIndex = FALSE
  /\ modelDirExists = TRUE
  /\ files = [p \in ModelPaths |-> NoFile]
  /\ store = <<>>
  /\ issued = 0
  /\ resp = NoResponse
  /\ calls = <<>>
  /\ writer = Idle
  /\ reader = Idle
  /\ input \in { [baselineSteps |-> b, currentSteps |-> c] : b, c \in DiffLists }
  /\ result = None
  /\ prior = None
  /\ req = NoRequest
  /\ ml = Idle

\* generatePipelineComparison(baselineSteps, currentSteps)
Compare ==
  /\ result = None
  /\ result' = generatePipelineComparison(input.baselineSteps, input.currentSteps)
  /\ UNCHANGED << config, files, store, issued, resp, calls, writer, reader, input, prior, req, ml >>

NextDiff == Compare

SpecDiff == InitDiff /\ [][NextDiff]_vars

\* the names of a list of steps or of entries, and the places of a name in it
NamesIn(list) == { list[i].name : i \in 1..Len(list) }
PlacesOf(list, name) == { i \in 1..Len(list) : list[i].name = name }

\* C14: the names on the two returned sides are the distinct step names of the
\* two lists; a name of the baseline list alone is once on the baseline side,
\* as removed, and not on the current side; a name of the current list alone
\* is once on the current side, as added, and not on the baseline side
C14_EveryNameOnItsSide ==
  result # None =>
    /\ NamesIn(result.baseline) \cup NamesIn(result.current)
         = NamesIn(input.baselineSteps) \cup NamesIn(input.currentSteps)
    /\ \A name \in NamesIn(input.baselineSteps) \ NamesIn(input.currentSteps) :
         /\ Cardinality(PlacesOf(result.baseline, name)) = 1
         /\ \A i \in PlacesOf(result.baseline, name) : result.baseline[i].status = "removed"
         /\ PlacesOf(result.current, name) = {}
    /\ \A name \in NamesIn(input.currentSteps) \ NamesIn(input.baselineSteps) :
         /\ Cardinality(PlacesOf(result.current, name)) = 1
         /\ \A i \in PlacesOf(result.current, name) : result.current[i].status = "added"
         /\ PlacesOf(result.baseline, name) = {}

\* C14 (case reached): a comparison of a list with a step the other lacks and
\* of another with a step the first lacks, one of them naming a step twice
C14_StepsOnOneSideOnly ==
  /\ result # None
  /\ NamesIn(input.baselineSteps) \ NamesIn(input.currentSteps) # {}
  /\ NamesIn(input.currentSteps) \ NamesIn(input.baselineSteps) # {}
  /\ Len(input.baselineSteps) > Cardinality(NamesIn(input.baselineSteps))

OrderInputs == { Fin(0), Fin(-1000), Fin(2000), Str(<<"7">>), Str(<<"a", "b", "c">>), Null }

OrderFields == { "executionOrder", "order", "index", "run_number" }

PermissionInputs ==
  { Undefined, Arr(<<>>), Arr(<< <<"r", "e", "a", "d">>, <<"w", "r", "i", "t", "e">>, <<"r", "e", "a", "d">> >>), Str(<<"a", "d", "m", "i", "n">>) }

ParseSteps ==
  { RawStep(name, Undefined, permissions) :
      name \in { <<"s", "c", "a", "n">>, <<"d", "e", "p", "l", "o", "y">> }, permissions \in PermissionInputs }
  \cup { [ RawStep(name, Undefined, Undefined) EXCEPT ![field] = value ] :
           name \in { <<"s", "c", "a", "n">>, <<"d", "e", "p", "l", "o", "y">> }, field \in OrderFields, value \in OrderInputs }
  \cup { [ RawStep(<<"x">>, Undefined, Undefined) EXCEPT !.name = Undefined ] }

\* a Jenkins log of two stages, Azure DevOps logs whose stage has jobs or
\* phases, and a GitHub Actions log of one job
LogJenkins ==
  [ RawLog(Str(<<"w", "e", "b">>), Undefined, Undefined) EXCEPT
      !.stages = Arr(<< RawStage(Arr(<< RawStep(<<"b", "u", "i", "l", "d">>, Undefined, Undefined),
                                        RawStep(<<"s", "c", "a", "n">>, Undefined, Undefined) >>),
                                 Undefined, Undefined),
                        RawStage(Arr(<< RawStep(<<"d", "e", "p", "l", "o", "y">>, Undefined, Undefined) >>),
                                 Undefined, Undefined) >>) ]

LogAzureJobs ==
  [ RawLog(Str(<<"w", "e", "b">>), Undefined, Undefined) EXCEPT
      !.stages = Arr(<< RawStage(Undefined,
                                 Arr(<< RawJob(Arr(<< RawStep(<<"b", "u", "i", "l", "d">>, Undefined, Undefined),
                                                      RawStep(<<"s", "c", "a", "n">>, Undefined, Undefined) >>)) >>),
                                 Undefined) >>) ]

LogAzurePhases ==
  [ RawLog(Str(<<"w", "e", "b">>), Undefined, Undefined) EXCEPT
      !.stages = Arr(<< RawStage(Undefined, Undefined,
                                 Arr(<< RawJob(Arr(<< RawStep(<<"s", "c", "a", "n">>, Undefined, Undefined) >>)) >>)) >>) ]

LogGithub ==
  [ RawLog(Undefined, Undefined, Undefined) EXCEPT
      !.workflow = Str(<<"c", "i">>),
      !.jobs = Arr(<< RawJob(Arr(<< RawStep(<<"b", "u", "i", "l", "d">>, Undefined, Undefined),
                                   RawStep(<<"s", "c", "a", "n">>, Undefined, Undefined) >>)) >>) ]

\* logs of one step, of a scan after any step, of no step object at all, logs
\* of other CI systems, and values that are no log
ParseInputs ==
  { RawLog(Str(<<"w", "e", "b">>), Undefined, Arr(<< s >>)) : s \in ParseSteps }
  \cup { RawLog(Str(<<"w", "e", "b">>), Undefined, Arr(<< s, RawStep(<<"s", "c", "a", "n">>, Undefined, Undefined) >>)) :
           s \in ParseSteps }
  \cup { RawLog(Str(<<"w", "e", "b">>), Undefined, Arr(<< Null >>)), LogA, LogB, LogDummy, LogText,
         Undefined, LogJenkins, LogAzureJobs, LogAzurePhases, LogGithub }

InitParse ==
  /\ nodeEnv = "development"
  /\ dbConnected = FALSE
  /\ uniqueIndex = FALSE
  /\ modelDirExists = TRUE
  /\ files = [p \in ModelPaths |-> NoFile]
  /\ store = <<>>
  /\ issued = 0
  /\ resp = NoResponse
  /\ calls = <<>>
  /\ writer = Idle
  /\ reader = Idle
  /\ input \in ParseInputs
  /\ result = None
  /\ prior = None
  /\ req = NoRequest
  /\ ml = Idle

parseFrame == << config, files, store, issued, resp, calls, writer, reader, input, prior, req, ml >>

\* parseLog(logData), with what the parseUniversalLog call in it returned
Parse ==
  \E now \in Clock :
    /\ result = None
    /\ result' = [ parsed |-> parseLog(input, now), features |-> None,
                   universal |-> parseUniversalLog(input, now) ]
    /\ UNCHANGED parseFrame

\* extractFeatures(parsedLog) on what parseLog returned
Extract ==
  /\ result # None
  /\ ~result.parsed.threw
  /\ result.features = None
  /\ result' = [ result EXCEPT !.features = extractFeatures(result.parsed.log) ]
  /\ UNCHANGED parseFrame

NextParse == Parse \/ Extract

SpecParse == InitParse /\ [][NextParse]_vars

\* C16: in what parseLog returns, every step has a non-empty name, a numeric
\* executionOrder of at least 1, permissions without duplicates and boolean
\* security, secrets and approval, also when the raw step gives its own
\* executionOrder, order, index or run_number
C16_ParsedStepsWellFormed ==
  (result # None /\ ~result.parsed.threw) =>
    \A i \in 1..Len(result.parsed.log.steps) :
      /\ result.parsed.log.steps[i].name # <<>>
      /\ result.parsed.log.steps[i].executionOrder.k = "fin"
      /\ result.parsed.log.steps[i].executionOrder.v >= 1000
      /\ \A p, q \in 1..Len(result.parsed.log.steps[i].permissions) :
           result.parsed.log.steps[i].permissions[p] = result.parsed.log.steps[i].permissions[q]
             => p = q
      /\ result.parsed.log.steps[i].security \in BOOLEAN
      /\ result.parsed.log.steps[i].secrets \in BOOLEAN
      /\ result.parsed.log.steps[i].approval \in BOOLEAN

\* C17: for every log parseLog returns, extractFeatures returns 17 finite
\* numbers, which validateFeatures accepts, and 17 zeros when there is no step
C17_SeventeenFiniteFeatures ==
  (result # None /\ result.features # None) =>
    /\ Len(result.features) = 17
    /\ \A i \in 1..Len(result.features) : result.features[i].k = "fin"
    /\ validateFeatures(result.features)
    /\ result.parsed.log.steps = <<>> => \A i \in 1..Len(result.features) : result.features[i] = Fin(0)

\* C27: for a parsed log without a step of type deploy, feature 15
\* (securityBeforeDeploy) equals feature 1 (securityStepCount), whatever
\* executionOrder the steps carry
C27_NoDeployCountsEverySecurityStep ==
  ( /\ result # None
    /\ result.features # None
    /\ \A i \in 1..Len(result.parsed.log.steps) :
         result.parsed.log.steps[i].type # <<"d", "e", "p", "l", "o", "y">> )
  => result.features[FeatureIndex("securityBeforeDeploy")]
       = result.features[FeatureIndex("securityStepCount")]

\* a stages array whose first element has a steps array, and no workflow and
\* no jobs array
JenkinsShaped(json) ==
  /\ json.k = "object"
  /\ ~Truthy(json.workflow)
  /\ ~IsArray(json.jobs)
  /\ IsArray(json.stages)
  /\ Len(json.stages.items) > 0
  /\ IsArray(json.stages.items[1].steps)

\* a stages array whose first element has jobs or phases, and no steps
AzureShaped(json) ==
  /\ json.k = "object"
  /\ ~Truthy(json.workflow)
  /\ ~IsArray(json.jobs)
  /\ IsArray(json.stages)
  /\ Len(json.stages.items) > 0
  /\ ~Truthy(json.stages.items[1].steps)
  /\ Truthy(json.stages.items[1].jobs) \/ Truthy(json.stages.items[1].phases)

\* C28: a Jenkins-shaped log is detected as jenkins and its canonical steps
\* are the entries of stages[].steps[] in order; a log whose first stage has
\* jobs or phases is detected as azure-devops
C28_StagesDetected ==
  result # None =>
    /\ JenkinsShaped(input) =>
         /\ ~result.universal.threw
         /\ result.universal.log.detectedFormat = "jenkins"
         /\ result.universal.log.steps
              = NormalizeFrom(StepsUnder(input.stages), Len(StepsUnder(input.stages)))
    /\ AzureShaped(input) =>
         /\ ~result.universal.threw
         /\ result.universal.log.detectedFormat = "azure-devops"

(***************************************************************************)
(* a detection against the model file: loadModel, validateModel and        *)
(* detectDrift over the models a file may hold                             *)
(***************************************************************************)
\* a model without one of the 17 features
Without(model, featureName) ==
  [ model EXCEPT !.features = [f \in (DOMAIN @) \ {featureName} |-> @[f]] ]

\* a model with a feature the extractor does not know, its statistics those
\* of totalStepCount
WithExtra(model) ==
  [ model EXCEPT !.features =
      [f \in (DOMAIN @) \cup {"buildDuration"} |->
         IF f = "buildDuration" THEN @["totalStepCount"] ELSE @[f]] ]

\* the models the file holds at the start: the trained one, and the same with
\* a feature missing, with a feature too many, with both, with a stdDev below
\* zero and with a stdDev of zero
PersistedModels ==
  { BaselineModel, WithExtra(BaselineModel),
    WithExtra(Without(BaselineModel, "securityScanCount")) }
  \cup { Without(BaselineModel, f) : f \in FeatureInputs }
  \cup { ModelWith(f, Fin(2000), s) : f \in FeatureInputs, s \in { Fin(-100), Fin(-1), Fin(0) } }

LoadInputs ==
  { [featureVector |-> v, model |-> m] :
      v \in { VectorA, VectorB, VectorFar }, m \in PersistedModels }

InitLoad ==
  /\ nodeEnv = "development"
  /\ dbConnected = FALSE
  /\ uniqueIndex = FALSE
  /\ modelDirExists = TRUE
  /\ input \in LoadInputs
  /\ files = [ p \in ModelPaths |->
                 IF p = DEFAULT_MODEL_PATH
                 THEN [exists |-> TRUE, text |-> JSONstringify(input.model)]
                 ELSE NoFile ]
  /\ store = <<>>
  /\ issued = 0
  /\ resp = NoResponse
  /\ calls = <<>>
  /\ writer = Idle
  /\ reader = Idle
  /\ result = None
  /\ prior = None
  /\ req = NoRequest
  /\ ml = Idle

loadFrame == << config, files, store, resp, calls, writer, reader, input, req, ml >>

\* detectDrift(featureVector, { modelPath }): the detector loads the file
DetectFromPath ==
  \E now \in Clock :
    /\ issued < MaxIds
    /\ result' = detectDrift(input.featureVector,
                             [ model |-> Undefined, modelPath |-> Str(DEFAULT_MODEL_PATH),
                               pipelineName |-> Undefined ],
                             files, Uuid(issued + 1), now)
    /\ prior' = result
    /\ issued' = issued + 1
    /\ UNCHANGED loadFrame

\* detectDrift with the model the caller loaded, or the throw of loadModel
detectLoaded(featureVector, loaded, fs, id, now) ==
  IF loaded.threw
  THEN [threw |-> TRUE, error |-> loaded.error, analysis |-> None]
  ELSE detectDrift(featureVector,
                   [ model |-> loaded.model, modelPath |-> Undefined,
                     pipelineName |-> Str(<<"t", "e", "s", "t", "-", "p", "i", "p", "e", "l", "i", "n", "e">>) ],
                   fs, id, now)

\* const model = loadModel(modelPath), then detectDrift(featureVector, { model })
LoadThenDetect ==
  \E now \in Clock :
    /\ issued < MaxIds
    /\ result' = detectLoaded(input.featureVector,
                              loadModel(Str(DEFAULT_MODEL_PATH), files),
                              files, Uuid(issued + 1), now)
    /\ prior' = result
    /\ issued' = issued + 1
    /\ UNCHANGED loadFrame

NextLoad == DetectFromPath \/ LoadThenDetect

SpecLoad == InitLoad /\ [][NextLoad]_vars

\* the feature names of the model are the 17 required ones, no more, no fewer
ExactlyTheFeatures(model) == DOMAIN model.features = FeatureNameSet

\* no feature of the model has a stdDev below zero
NoNegativeStdDev(model) ==
  \A f \in DOMAIN model.features :
    ~(model.features[f].stdDev.k = "fin" /\ model.features[f].stdDev.v < 0)

\* C18: a persisted model whose feature names are not exactly the 17 required
\* ones (one missing or one extra), or in which some feature has a negative
\* stdDev, is rejected: loadModel throws or detectDrift fails before any score
\* is computed
C18_BadPersistedModelRejected ==
  (result # None /\ ~(ExactlyTheFeatures(input.model) /\ NoNegativeStdDev(input.model)))
  => (result.threw /\ result.analysis = None)

(***************************************************************************)
(* GET /pipelines/:pipelineName over the analyses a store may hold         *)
(***************************************************************************)
\* the parsedSteps of an upload: none, a scan, a build that writes
UploadedSteps ==
  { <<>>,
    << ParsedStep(<<"s", "c", "a", "n">>, <<>>, TRUE, FALSE, FALSE) >>,
    << ParsedStep(<<"b", "u", "i", "l", "d">>, << <<"w", "r", "i", "t", "e">> >>, FALSE, FALSE, FALSE) >> }

\* the timestamps the uploads carry: 00:00Z, 01:00Z, and 02:00+02:00, which
\* is 00:00Z
UploadedTimestamps == { Timestamp(0, 0), Timestamp(1, 0), Timestamp(2, 2) }

\* the analysis the n-th upload left in the store
Uploaded(n, pipeline, timestamp, steps) ==
  [ StoredAnalysis(n, pipeline, 1250, timestamp) EXCEPT !.parsedSteps = steps ]

\* what the n-th upload may be: an analysis of web, or one of another pipeline
UploadsAt(n) ==
  { Uploaded(n, <<"w", "e", "b">>, t, s) : t \in UploadedTimestamps, s \in UploadedSteps }
    \cup { Uploaded(n, <<"a", "p", "i">>, Timestamp(1, 0), <<>>) }

\* the stores of n uploads, in the order they were stored
RECURSIVE StoresOf(_)
StoresOf(n) ==
  IF n = 0 THEN { <<>> }
  ELSE { Append(s, a) : s \in StoresOf(n - 1), a \in UploadsAt(n) }

\* the stores of at most n uploads
StoresUpTo(n) == UNION { StoresOf(m) : m \in 0..n }

InitPipelines ==
  /\ nodeEnv = "development"
  /\ dbConnected \in BOOLEAN
  /\ uniqueIndex = dbConnected
  /\ modelDirExists = TRUE
  /\ files = [p \in ModelPaths |-> NoFile]
  /\ store \in StoresUpTo(MaxUploads)
  /\ issued = 0
  /\ resp = NoResponse
  /\ calls = <<>>
  /\ writer = Idle
  /\ reader = Idle
  /\ input = None
  /\ result = None
  /\ prior = None
  /\ req = NoRequest
  /\ ml = Idle

NextPipelines == GetPipeline

SpecPipelines == InitPipelines /\ [][NextPipelines]_vars

\* the stored analyses of the pipeline, as positions in the store
OfPipeline(pipelineName) ==
  { i \in 1..Len(store) : store[i].pipelineName = pipelineName }

Oldest(pipelineName) ==
  { i \in OfPipeline(pipelineName) :
      \A j \in OfPipeline(pipelineName) :
        Instant(store[i].timestamp) <= Instant(store[j].timestamp) }

Newest(pipelineName) ==
  { i \in OfPipeline(pipelineName) :
      \A j \in OfPipeline(pipelineName) :
        Instant(store[i].timestamp) >= Instant(store[j].timestamp) }

\* C20: GET /pipelines/:name answers 404 when the store holds no analysis of
\* the pipeline; otherwise the baseline side of the diff is built from the
\* parsedSteps of the oldest stored analysis of the pipeline and the current
\* side from those of the newest
C20_DiffOfOldestAndNewest ==
  (resp.route = "pipelines" /\ dbConnected)
  => IF OfPipeline(resp.pipelineName) = {}
     THEN resp.status = 404
     ELSE /\ resp.status = 200
          /\ \E o \in Oldest(resp.pipelineName), n \in Newest(resp.pipelineName) :
               /\ resp.body.baseline =
                    generatePipelineComparison(store[o].parsedSteps,
                                               store[n].parsedSteps).baseline
               /\ resp.body.current =
                    generatePipelineComparison(store[o].parsedSteps,
                                               store[n].parsedSteps).current

(***************************************************************************)
(* steps 4 to 6 of POST /analyze on their own: the analysis of step 3 is   *)
(* stored, the recent history read and the answer formatted with its trend *)
(***************************************************************************)
\* what the n-th analysis stored before may be: an analysis of web with a
\* score of its own, or one of another pipeline
EarlierAt(n) ==
  { StoredAnalysis(n, <<"w", "e", "b">>, 1000 * n, t) : t \in UploadedTimestamps }
    \cup { StoredAnalysis(n, <<"a", "p", "i">>, 1000 * n, Timestamp(0, 0)) }

RECURSIVE HistoriesOf(_)
HistoriesOf(n) ==
  IF n = 0 THEN { <<>> }
  ELSE { Append(s, a) : s \in HistoriesOf(n - 1), a \in EarlierAt(n) }

\* the analysis step 3 hands on: of web, with a fresh id
CurrentAnalyses ==
  { StoredAnalysis(0, <<"w", "e", "b">>, score, t) : score \in { 500, 1000, 2500 },
                                           t \in UploadedTimestamps }

InitTrend ==
  /\ nodeEnv = "development"
  /\ dbConnected \in BOOLEAN
  /\ uniqueIndex = dbConnected
  /\ modelDirExists = TRUE
  /\ files = [p \in ModelPaths |-> NoFile]
  /\ store \in UNION { HistoriesOf(n) : n \in 0..MaxIds }
  /\ issued = 0
  /\ resp = NoResponse
  /\ calls = <<>>
  /\ writer = Idle
  /\ reader = Idle
  /\ input \in CurrentAnalyses
  /\ result = None
  /\ prior = None
  /\ req = NoRequest
  /\ ml = Idle

\* the outcome of step 3 when detectDrift returned the analysis
detected(analysis) ==
  [ Response("analyze", 200, "") EXCEPT
      !.pipelineName = analysis.pipelineName, !.parsed = TRUE, !.vectorValid = TRUE,
      !.analysis = analysis ]

\* steps 4 to 6 (lines 120-145)
StoreAndAnswer ==
  \E stored \in { persistStep(detected(input), store, dbConnected, uniqueIndex) } :
    /\ resp.route = ""
    /\ store' = stored.collection
    /\ \E history \in recentHistory(stored.collection, dbConnected, input.pipelineName) :
         resp' = analyzeAnswer(detected(input), history)
    /\ UNCHANGED << config, files, issued, calls, writer, reader, input, result, prior, req, ml >>

NextTrend == StoreAndAnswer

SpecTrend == InitTrend /\ [][NextTrend]_vars

\* the stored analyses of the pipeline of the current one that are earlier
\* than it, as positions in the store
EarlierThan(current) ==
  { i \in 1..Len(store) :
      /\ store[i].pipelineName = current.pipelineName
      /\ store[i].id # current.id
      /\ Instant(store[i].timestamp) < Instant(current.timestamp) }

\* the most recent of them
LatestEarlier(current) ==
  { i \in EarlierThan(current) :
      \A j \in EarlierThan(current) :
        Instant(store[i].timestamp) >= Instant(store[j].timestamp) }

VectorZero == [i \in 1..getFeatureCount |-> Fin(0)]

\* the lists of vectors handed to training: valid ones, an empty one and one
\* with a vector validateFeatures rejects
TrainingSets ==
  { <<>>, << VectorA >>, << VectorB >>, << VectorZero >>, << VectorFar >>,
    << VectorA, VectorB >>, << VectorB, VectorB >>, << VectorA, VectorZero >>,
    << VectorA, VectorNaN >> }

ValidTrainingSet(featureVectors) ==
  /\ Len(featureVectors) > 0
  /\ \A i \in 1..Len(featureVectors) : validateFeatures(featureVectors[i])

\* the models there at the start: none, or the baseline without a feature
ExistingModels ==
  { None } \cup { [threw |-> FALSE, error |-> "", model |-> Without(BaselineModel, f)] :
                    f \in FeatureInputs }

InitRetrain ==
  /\ nodeEnv = "development"
  /\ dbConnected = FALSE
  /\ uniqueIndex = FALSE
  /\ modelDirExists = TRUE
  /\ files = [p \in ModelPaths |-> NoFile]
  /\ store = <<>>
  /\ issued = 0
  /\ resp = NoResponse
  /\ calls = <<>>
  /\ writer = Idle
  /\ reader = Idle
  /\ input = None
  /\ result \in ExistingModels
  /\ prior = None
  /\ req = NoRequest
  /\ ml = Idle

retrainFrame == << config, files, store, resp, calls, writer, reader, req, ml >>

\* trainBaselineModel(featureVectors)
TrainModel ==
  \E featureVectors \in TrainingSets :
    /\ result = None
    /\ result' = trainBaselineModel(featureVectors, Str(<<"d", "e", "f", "a", "u", "l", "t">>))
    /\ input' = [op |-> "train", featureVectors |-> featureVectors]
    /\ prior' = result
    /\ issued' = issued
    /\ UNCHANGED retrainFrame

\* retrainModel(existingModel, newFeatureVectors) on the model returned last
Retrain ==
  \E newFeatureVectors \in TrainingSets :
    /\ result # None
    /\ ~result.threw
    /\ issued < MaxIds
    /\ result' = retrainModel(result.model, newFeatureVectors)
    /\ input' = [op |-> "retrain", featureVectors |-> newFeatureVectors]
    /\ prior' = result
    /\ issued' = issued + 1
    /\ UNCHANGED retrainFrame

NextRetrain == TrainModel \/ Retrain

SpecRetrain == InitRetrain /\ [][NextRetrain]_vars

C24_MinMaxCountMerged ==
  (input # None /\ input.op = "retrain" /\ ~result.threw)
  => \A f \in DOMAIN prior.model.features :
       /\ result.model.features[f].min.v
            = MinSeq(<< prior.model.features[f].min.v >> \o ValuesOf(input.featureVectors, f))
       /\ result.model.features[f].max.v
            = MaxSeq(<< prior.model.features[f].max.v >> \o ValuesOf(input.featureVectors, f))
       /\ result.model.features[f].count
            = prior.model.features[f].count + Len(input.featureVectors)

(***************************************************************************)
(* utils/mlService.js and the detectDrift that scores with the ML service: *)
(* one call, followed through its requests                                 *)
(***************************************************************************)
\* how one fetch raced against the timeout ends: a 200 with a prediction, a
\* 200 whose JSON has no drift_score, a status that is not ok, the timeout
\* first, a refused connection, any other rejection of fetch
FetchOutcomes == { "ok", "no-score", "http-error", "timeout", "refused", "failed" }

Rejections == { "timeout", "refused", "failed" }

\* error.message of a rejection
RejectionMessage(outcome) ==
  CASE outcome = "timeout" -> <<"R", "e", "q", "u", "e", "s", "t", " ", "t", "i", "m", "e", "o", "u", "t", " ", "a", "f", "t", "e", "r", " ", "5", "0", "0", "0", "m", "s">>
    [] outcome = "refused" -> <<"c", "o", "n", "n", "e", "c", "t", " ", "E", "C", "O", "N", "N", "R", "E", "F", "U", "S", "E", "D", " ", "1", "2", "7", ".", "0", ".", "0", ".", "1", ":", "5", "0", "0", "0">>
    [] OTHER -> <<"f", "e", "t", "c", "h", " ", "f", "a", "i", "l", "e", "d">>

\* the predictions the service answers with: drift_score and risk_level
ServiceResults ==
  { [drift_score |-> 1250, risk_level |-> "low"],
    [drift_score |-> 6400, risk_level |-> "high"] }

\* fetchWithRetry's catch: retry while attempts are left and the message
\* names a timeout or a refused connection
shouldRetry(retries, message) ==
  /\ retries > 0
  /\ Includes(message, <<"t", "i", "m", "e", "o", "u", "t">>) \/ Includes(message, <<"E", "C", "O", "N", "N", "R", "E", "F", "U", "S", "E", "D">>)

\* generateSecurityIssuesFromML: type, severity and step of each issue; the
\* ids and the descriptions are left out
generateSecurityIssuesFromML(featureVector, driftScore) ==
  IF driftScore < 3000 THEN <<>>
  ELSE (IF featureVector[1].v = 0 \/ featureVector[2].v = 0
        THEN << [ type |-> "security_scan_removed",
                  severity |-> IF driftScore >= 7000 THEN "critical"
                               ELSE IF driftScore >= 5000 THEN "high" ELSE "medium",
                  step |-> "security-scan" ] >>
        ELSE <<>>)
       \o (IF featureVector[5].v > 0 \/ featureVector[9].v = 1000
           THEN << [ type |-> "permission_escalation",
                     severity |-> IF driftScore >= 7000 THEN "critical" ELSE "high",
                     step |-> "permissions" ] >>
           ELSE <<>>)
       \o (IF featureVector[14].v > 0
           THEN << [ type |-> "secrets_exposure",
                     severity |-> IF driftScore >= 7000 THEN "critical" ELSE "high",
                     step |-> "secrets" ] >>
           ELSE IF featureVector[6].v > 0 /\ driftScore >= 5000
           THEN << [ type |-> "secrets_exposure", severity |-> "medium",
                     step |-> "secrets" ] >>
           ELSE <<>>)
       \o (IF featureVector[7].v = 0 /\ driftScore >= 5000
           THEN << [ type |-> "approval_bypassed",
                     severity |-> IF driftScore >= 7000 THEN "high" ELSE "medium",
                     step |-> "approval" ] >>
           ELSE <<>>)
       \o (IF featureVector[16].v = 0 /\ featureVector[2].v > 0 /\ driftScore >= 5000
           THEN << [ type |-> "execution_order_changed", severity |-> "medium",
                     step |-> "execution-order" ] >>
           ELSE <<>>)

\* the result object of the ML detectDrift; the explanation strings, the
\* anomaly fields and the copy of the vector are left out
mlAnalysis(featureVector, mlResult, id, now) ==
  [ threw |-> FALSE, error |-> "",
    analysis |-> [ k |-> "analysis", id |-> id, pipelineName |-> Str(<<"u", "n", "k", "n", "o", "w", "n">>),
                   driftScore |-> mlResult.drift_score,
                   riskLevel |-> mlResult.risk_level,
                   timestamp |-> Timestamp(now, 0),
                   issues |-> generateSecurityIssuesFromML(featureVector,
                                                           mlResult.drift_score) ] ]

\* a detectDrift that answers a failed prediction with the score of the
\* statistical detector against the baseline
mlFallbackToBaseline(featureVector, id, now) ==
  [ threw |-> FALSE, error |-> "",
    analysis |-> [ k |-> "analysis", id |-> id, pipelineName |-> Str(<<"u", "n", "k", "n", "o", "w", "n">>),
                   driftScore |-> calculateDriftScore(ZScoresOf(featureVector, BaselineModel)),
                   riskLevel |-> calculateRiskLevel(
                                   calculateDriftScore(ZScoresOf(featureVector, BaselineModel))),
                   timestamp |-> Timestamp(now, 0),
                   issues |-> <<>> ] ]

\* the catch of the ML detectDrift: whatever predictDrift threw is thrown on
mlFailure(featureVector, id, now) ==
  [ threw |-> TRUE, error |-> "Drift detection failed", analysis |-> None ]

\* what detectDrift makes of the settled request: predictDrift throws on a
\* rejection and on a status that is not ok, and toFixed throws on a
\* prediction without drift_score
mlOutcome(featureVector, outcome, mlResult, id, now) ==
  IF outcome = "ok" THEN mlAnalysis(featureVector, mlResult, id, now)
  ELSE mlFailure(featureVector, id, now)

\* the retry budgets drawn
RetryBudgets == 0..MaxRetries

InitMl ==
  /\ nodeEnv = "development"
  /\ dbConnected = FALSE
  /\ uniqueIndex = FALSE
  /\ modelDirExists = TRUE
  /\ files = [p \in ModelPaths |-> NoFile]
  /\ store = <<>>
  /\ issued = 0
  /\ resp = NoResponse
  /\ calls = <<>>
  /\ writer = Idle
  /\ reader = Idle
  /\ input \in { [featureVector |-> v, retries |-> r] :
                   v \in { VectorA, VectorB, VectorNaN }, r \in RetryBudgets }
  /\ result = None
  /\ prior = None
  /\ req = NoRequest
  /\ ml = [pc |-> "idle", retries |-> 0, requests |-> 0, outcome |-> "", message |-> <<>>]

mlFrame == << config, files, store, resp, calls, writer, reader, input, prior, req >>

\* detectDrift(featureVector) up to the first fetchWithRetry: an invalid vector
\* throws before any request
CallDetectDrift ==
  /\ ml.pc = "idle"
  /\ IF validateFeatures(input.featureVector)
     THEN /\ ml' = [ml EXCEPT !.pc = "fetching", !.retries = input.retries]
          /\ result' = result
     ELSE /\ ml' = [ml EXCEPT !.pc = "done"]
          /\ result' = [threw |-> TRUE, error |-> "Invalid feature vector", analysis |-> None]
  /\ UNCHANGED << mlFrame, issued >>

\* fetchWithRetry calls fetch and awaits the race with the timeout
SendRequest ==
  /\ ml.pc = "fetching"
  /\ ml' = [ml EXCEPT !.pc = "racing", !.requests = @ + 1]
  /\ UNCHANGED << mlFrame, issued, result >>

\* the race settles: with a response, or with a rejection that is retried
\* after a wait or thrown
Settle ==
  \E outcome \in FetchOutcomes :
    /\ ml.pc = "racing"
    /\ ml' = [ml EXCEPT
                !.outcome = outcome,
                !.message = IF outcome \in Rejections THEN RejectionMessage(outcome) ELSE <<>>,
                !.pc = IF outcome \notin Rejections THEN "responded"
                       ELSE IF shouldRetry(ml.retries, RejectionMessage(outcome))
                       THEN "waiting" ELSE "rejected"]
    /\ UNCHANGED << mlFrame, issued, result >>

\* the wait of one second is over: fetchWithRetry(url, options, retries - 1)
RetryAfterWait ==
  /\ ml.pc = "waiting"
  /\ ml' = [ml EXCEPT !.pc = "fetching", !.retries = @ - 1]
  /\ UNCHANGED << mlFrame, issued, result >>

\* predictDrift and detectDrift finish: the analysis, or the error thrown on
Answer ==
  \E mlResult \in ServiceResults, now \in Clock :
    /\ ml.pc \in {"responded", "rejected"}
    /\ issued < MaxIds
    /\ result' = mlOutcome(input.featureVector, ml.outcome, mlResult, Uuid(issued + 1), now)
    /\ issued' = issued + 1
    /\ ml' = [ml EXCEPT !.pc = "done"]
    /\ UNCHANGED mlFrame

NextMl == CallDetectDrift \/ SendRequest \/ Settle \/ RetryAfterWait \/ Answer

SpecMl == InitMl /\ [][NextMl]_vars

\* every await of the call settles: fetch resolves or rejects or the timer of
\* the race fires, and the timer of the wait fires
SpecMlFair == SpecMl /\ WF_vars(NextMl)

\* never more requests than the budget and one, and a call that ended after a
\* failed last request threw and returned no analysis
WithinBudgetAndThrown ==
  /\ ml.requests <= input.retries + 1
  /\ (ml.pc = "done" /\ ml.outcome # "ok") => (result.threw /\ result.analysis = None)
  /\ (ml.pc = "done" /\ ~result.threw) =>
       \E mlResult \in ServiceResults :
         /\ result.analysis.driftScore = mlResult.drift_score
         /\ result.analysis.riskLevel = mlResult.risk_level

\* C30: fetchWithRetry with retry budget r issues at most r + 1 requests and
\* the call ends; when the last request failed or timed out detectDrift
\* throws, and a score it returns is the service's, never another one
C30_BoundedRetriesThenThrows ==
  /\ []WithinBudgetAndThrown
  /\ <>(ml.pc = "done")

\* C30 (case reached): a budget of two or more used up by timeouts, the call
\* ended by throwing
C30_BudgetUsedUp ==
  /\ ml.pc = "done"
  /\ input.retries >= 2
  /\ ml.requests = input.retries + 1
  /\ ml.outcome = "timeout"
  /\ result.threw

====
